---- MODULE Spec2Model ----
(***************************************************************************)
(* A model of google/genai/_api_client.py: the retry loop around one HTTP  *)
(* exchange, the credential manager behind the two auth locks, the         *)
(* resumable upload loop, the merge of http options, the construction of   *)
(* the client, the request builder and the response stream decoder.        *)
(*                                                                         *)
(* Each component has its own specification (SpecRetry, SpecAuth,          *)
(* SpecUpload, SpecMerge, SpecInit, SpecRequest, SpecStream) over the      *)
(* component's variables; the variables of the other components stay at    *)
(* their initial values.  SpecCalls follows call after call on one client, *)
(* SpecConcurrent two calls in flight together, SpecBody the body of a     *)
(* request, and SpecCarrier two coroutines on one event loop.              *)
(***************************************************************************)
EXTENDS Integers, Sequences, FiniteSets, TLC

VARIABLES
  \* ---- retry loop (BaseApiClient._request / _async_request)
  retry_options,   \* self._http_options.retry_options: None or HttpRetryOptions
  rmode,           \* "none" | "sync" (_request) | "async" (_async_request)
  rpc,             \* position of the call in tenacity's loop
  attempt_number,  \* RetryCallState.attempt_number
  outcomes,        \* outcome of every executed attempt, in order
  sleeps,          \* number of sleeps performed between attempts
  returned,        \* what the caller of _request/_async_request received
  \* ---- credential manager (BaseApiClient._access_token / _async_access_token)
  credentials,     \* self._credentials: "none" (falsy) or "set"
  token,           \* self._credentials.token: 0 when absent
  expired,         \* self._credentials.expired
  sync_auth_lock,  \* self._sync_auth_lock: its holder, 0 when free
  async_auth_lock, \* self._async_auth_lock: its holder, 0 when free
  apc,             \* position of each caller in the access-token operation
  apath,           \* call path of each caller: "none", "sync" or "async"
  aresult,         \* what each caller received: a token, or ErrorResult
  refreshing,      \* callers that are inside _refresh_auth right now
  refreshes,       \* number of _refresh_auth calls made
  loads,           \* number of _load_auth calls made
  stale0,          \* the token was absent or expired when the callers arrived
  env_failed,      \* some _load_auth or _refresh_auth raised or left no token
  \* ---- resumable upload (BaseApiClient._upload_fd / _async_upload_fd)
  umode,           \* "none" | "sync" | "aiohttp" | "httpx": the loop in use
  upc,             \* position of the upload call
  upload_size,     \* the declared size
  file_len,        \* number of bytes the source holds
  file_pos,        \* read position in the source
  file_chunk,      \* the bytes file.read returned: their range in the source
  offset,          \* bytes sent so far
  chunk_size,      \* len(file_chunk) of the chunk in hand
  upload_command,  \* X-Goog-Upload-Command of the chunk in hand
  retry_count,     \* header-absence retries of the chunk in hand
  last_status,     \* x-goog-upload-status of the last response, or "unset"
  posts,           \* every POST sent, with the status answered
  usleeps,         \* number of sleeps of the per-chunk retry
  uresult,         \* "none" | "ok" | "protocol_violation" | "not_finalized"
  \* ---- options merger (_patch_http_options)
  base_options,    \* the base HttpOptions (`options`)
  override_options, \* the override HttpOptions (`patch_options`)
  mpc,             \* "idle" | "done"
  copy_option,     \* the HttpOptions _patch_http_options returned
  \* ---- the client (BaseApiClient.__init__)
  cpc,             \* "new" | "ready" | "failed"
  ctor_args,       \* the arguments __init__ was called with
  environ,         \* the environment __init__ ran in
  ctor_error,      \* the error __init__ raised, or "none"
  vertexai,        \* self.vertexai: None, True or False
  api_key,         \* self.api_key
  project,         \* self.project
  location,        \* self.location
  _http_options,   \* self._http_options
  \* ---- one call (request, request_streamed, download_file, async forms)
  qkind,           \* the method called, or "none"
  qpc,             \* "idle" | "failed" | "retrying" | "send" | "done"
  http_method,     \* argument http_method
  path,            \* argument path
  request_dict,    \* argument request_dict: the body fields
  http_options,    \* argument http_options: the per-call override, or None
  http_request,    \* the HttpRequest _build_request returned
  call_error,      \* the error _build_request raised, or "none"
  sent,            \* the HTTP requests the call handed to the HTTP client
  built_headers,   \* the headers of http_request as _build_request left them
  \* ---- a second call in flight on the same client, from another thread
  peer_pc,         \* "idle" | "attempt" | "done"
  peer_request,    \* the HttpRequest _build_request returned to it
  \* ---- stream decoder (HttpResponse.segments / async_segments)
  stream_source,   \* what response_stream is: a list, None, or a live body
  response_stream, \* the chunks the body source yields, in order
  scall,           \* the decode call the consumer iterates, or "none"
  spc,             \* "idle" | "open" | "ended" | "raised" | "closed"
  chunk_index,     \* number of chunks taken from the source
  yielded,         \* what the consumer received, in order
  unreleased       \* what was opened for the response and is still open

retryVars == <<retry_options, rmode, rpc, attempt_number, outcomes, sleeps,
               returned>>

authVars == <<credentials, token, expired, sync_auth_lock, async_auth_lock,
              apc, apath, aresult, refreshing, refreshes, loads, stale0,
              env_failed>>

uploadVars == <<umode, upc, upload_size, file_len, file_pos, file_chunk,
                offset, chunk_size, upload_command, retry_count, last_status, posts,
                usleeps, uresult>>

mergeVars == <<base_options, override_options, mpc, copy_option>>

clientVars == <<cpc, ctor_args, environ, ctor_error, vertexai, api_key,
                project, location, _http_options>>

callVars == <<qkind, qpc, http_method, path, request_dict, http_options,
              http_request,
              call_error, sent, built_headers, peer_pc, peer_request>>

streamVars == <<stream_source, response_stream, scall, spc, chunk_index,
                yielded, unreleased>>

vars == <<retryVars, authVars, uploadVars, mergeVars, clientVars, callVars,
          streamVars>>

notRetryVars == <<authVars, uploadVars, mergeVars, clientVars, callVars,
                  streamVars>>

notAuthVars == <<retryVars, uploadVars, mergeVars, clientVars, callVars,
                 streamVars>>

notUploadVars == <<retryVars, authVars, mergeVars, clientVars, callVars,
                   streamVars>>

notMergeVars == <<retryVars, authVars, uploadVars, clientVars, callVars,
                  streamVars>>

(***************************************************************************)
(* Bounds of the model.                                                    *)
(***************************************************************************)
MaxAttempts == 3

\* Number of concurrent callers of the access-token operation.
NCallers == 3

\* Largest declared upload size and largest source, in bytes.
MaxBytes == 4

\* Bytes read per chunk (8 * 1024 * 1024 in the source, scaled down).
CHUNK_SIZE == 2

\* POSTs after which the modelled upload is cut off.
MaxPosts == 6

\* Longest request path, in pieces.
MaxPathLen == 2

\* Number of distinct non-empty JSON records.
MaxJson == 2

\* Longest body, in chunks.
MaxChunks == 3

\* Longest body on the wire, in lines.
MaxLines == 2

\* Refreshes of the credential, and discoveries of it, in one behaviour.
MaxRefreshes == 2

(***************************************************************************)
(* Credential manager.                                                     *)
(***************************************************************************)
Callers == 1..NCallers

NoResult == 0

ErrorResult == -1

\* The token the r-th refresh stores; Token(0) is one held before any refresh.
Token(r) == r + 1

\* self._credentials.expired or not self._credentials.token
NeedsRefresh == expired \/ token = 0

DoubleCheckSkipped == TRUE

\* A check that always finds the credential missing.
CredentialsAssumedMissing == TRUE

\* `not self._credentials`
NotCredentials == credentials = "none"

\* The second check, inside the async lock, before refreshing.
DoubleCheckExpired == NeedsRefresh

LockIgnored(lock) == TRUE

\* A lock that stays with the caller that failed.
LockKept(holder) == holder

\* The end of `with self._sync_auth_lock:` / `async with
\* self._async_auth_lock:` when the block raises: the lock is released.
LockExit(holder) == 0

\* threading.Lock / asyncio.Lock: acquired only when no caller holds it.
LockFree(lock) == lock = 0

\* The credential manager before any caller, with no credential resolved.
AuthIdle ==
  /\ credentials = "none"
  /\ token = 0
  /\ expired = FALSE
  /\ sync_auth_lock = 0
  /\ async_auth_lock = 0
  /\ apc = [c \in Callers |-> "idle"]
  /\ apath = [c \in Callers |-> "none"]
  /\ aresult = [c \in Callers |-> NoResult]
  /\ refreshing = {}
  /\ refreshes = 0
  /\ loads = 0
  /\ stale0 = TRUE
  /\ env_failed = FALSE

\* Outcomes of google.auth's credentials.refresh as _access_token sees them.
RefreshOutcomes == {"ok", "raise", "no_token"}

\* Outcomes of _load_auth.
LoadOutcomes == {"ok", "raise"}

Fail(c) ==
  /\ apc' = [apc EXCEPT ![c] = "done"]
  /\ aresult' = [aresult EXCEPT ![c] = ErrorResult]

\* --- blocking path: _access_token

\* A caller enters _access_token and waits for `with self._sync_auth_lock`.
access_token_call(c) ==
  /\ apc[c] = "idle"
  /\ apc' = [apc EXCEPT ![c] = "s_acquire"]
  /\ apath' = [apath EXCEPT ![c] = "sync"]
  /\ UNCHANGED notAuthVars
  /\ UNCHANGED <<credentials, token, expired, sync_auth_lock, async_auth_lock,
                 aresult, refreshing, refreshes, loads, stale0, env_failed>>

\* with self._sync_auth_lock, then `if not self._credentials`.
access_token_acquire(c) ==
  /\ apc[c] = "s_acquire"
  /\ LockFree(sync_auth_lock)
  /\ sync_auth_lock' = c
  /\ apc' = [apc EXCEPT ![c] = IF NotCredentials THEN "s_load"
                               ELSE "s_check"]
  /\ UNCHANGED notAuthVars
  /\ UNCHANGED <<credentials, token, expired, async_auth_lock, apath, aresult,
                 refreshing, refreshes, loads, stale0, env_failed>>

\* self._credentials, project = _load_auth(project=self.project)
access_token_load(c) ==
  /\ apc[c] = "s_load"
  /\ loads' = loads + 1
  /\ \E out \in LoadOutcomes :
       IF out = "ok"
       THEN /\ credentials' = "set"
            /\ apc' = [apc EXCEPT ![c] = "s_check"]
            /\ UNCHANGED <<sync_auth_lock, aresult, env_failed>>
       ELSE /\ Fail(c)
            /\ sync_auth_lock' = LockExit(sync_auth_lock)
            /\ env_failed' = TRUE
            /\ UNCHANGED credentials
  /\ UNCHANGED notAuthVars
  /\ UNCHANGED <<token, expired, async_auth_lock, apath, refreshing,
                 refreshes, stale0>>

\* if self._credentials.expired or not self._credentials.token
access_token_check(c) ==
  /\ apc[c] = "s_check"
  /\ apc' = [apc EXCEPT ![c] = IF NeedsRefresh THEN "s_refresh" ELSE "s_return"]
  /\ UNCHANGED notAuthVars
  /\ UNCHANGED <<credentials, token, expired, sync_auth_lock, async_auth_lock,
                 apath, aresult, refreshing, refreshes, loads, stale0,
                 env_failed>>

\* _refresh_auth(self._credentials) is entered.
access_token_refresh(c) ==
  /\ apc[c] = "s_refresh"
  /\ refreshing' = refreshing \cup {c}
  /\ refreshes' = refreshes + 1
  /\ apc' = [apc EXCEPT ![c] = "s_refreshing"]
  /\ UNCHANGED notAuthVars
  /\ UNCHANGED <<credentials, token, expired, sync_auth_lock, async_auth_lock,
                 apath, aresult, loads, stale0, env_failed>>

\* _refresh_auth returns or raises.
access_token_refreshed(c) ==
  /\ apc[c] = "s_refreshing"
  /\ refreshing' = refreshing \ {c}
  /\ \E out \in RefreshOutcomes :
       CASE out = "ok" ->
              /\ token' = Token(refreshes)
              /\ expired' = FALSE
              /\ apc' = [apc EXCEPT ![c] = "s_return"]
              /\ UNCHANGED <<sync_auth_lock, aresult, env_failed>>
         [] out = "no_token" ->
              /\ token' = 0
              /\ expired' = FALSE
              /\ env_failed' = TRUE
              /\ apc' = [apc EXCEPT ![c] = "s_return"]
              /\ UNCHANGED <<sync_auth_lock, aresult>>
         [] out = "raise" ->
              /\ Fail(c)
              /\ sync_auth_lock' = LockExit(sync_auth_lock)
              /\ env_failed' = TRUE
              /\ UNCHANGED <<token, expired>>
  /\ UNCHANGED notAuthVars
  /\ UNCHANGED <<credentials, async_auth_lock, apath, refreshes, loads, stale0>>

\* A return that hands out whatever the credential holds.
TokenUnchecked(held) == held

\* `if not self._credentials.token: raise RuntimeError(...)`, then
\* `return self._credentials.token`.
TokenOrError(held) == IF held = 0 THEN ErrorResult ELSE held

\* if not self._credentials.token: raise; return self._credentials.token
access_token_return(c) ==
  /\ apc[c] = "s_return"
  /\ sync_auth_lock' = 0
  /\ apc' = [apc EXCEPT ![c] = "done"]
  /\ aresult' = [aresult EXCEPT ![c] = TokenOrError(token)]
  /\ UNCHANGED notAuthVars
  /\ UNCHANGED <<credentials, token, expired, async_auth_lock, apath,
                 refreshing, refreshes, loads, stale0, env_failed>>

\* --- suspend-capable path: _async_access_token

\* A caller enters _async_access_token: `if not self._credentials`.
async_access_token_call(c) ==
  /\ apc[c] = "idle"
  /\ apath' = [apath EXCEPT ![c] = "async"]
  /\ apc' = [apc EXCEPT ![c] = IF NotCredentials THEN "a_acquire_load"
                               ELSE "a_check"]
  /\ UNCHANGED notAuthVars
  /\ UNCHANGED <<credentials, token, expired, sync_auth_lock, async_auth_lock,
                 aresult, refreshing, refreshes, loads, stale0, env_failed>>

\* async with self._async_auth_lock, then the second `if not self._credentials`.
async_access_token_acquire_load(c) ==
  /\ apc[c] = "a_acquire_load"
  /\ LockFree(async_auth_lock)
  /\ IF NotCredentials
     THEN /\ async_auth_lock' = c
          /\ apc' = [apc EXCEPT ![c] = "a_load"]
     ELSE /\ async_auth_lock' = 0
          /\ apc' = [apc EXCEPT ![c] = "a_check"]
  /\ UNCHANGED notAuthVars
  /\ UNCHANGED <<credentials, token, expired, sync_auth_lock, apath, aresult,
                 refreshing, refreshes, loads, stale0, env_failed>>

\* await asyncio.to_thread(_load_auth, project=self.project); the lock is
\* released on the way out.
async_access_token_load(c) ==
  /\ apc[c] = "a_load"
  /\ loads' = loads + 1
  /\ \E out \in LoadOutcomes :
       IF out = "ok"
       THEN /\ credentials' = "set"
            /\ async_auth_lock' = 0
            /\ apc' = [apc EXCEPT ![c] = "a_check"]
            /\ UNCHANGED <<aresult, env_failed>>
       ELSE /\ Fail(c)
            /\ async_auth_lock' = LockExit(async_auth_lock)
            /\ env_failed' = TRUE
            /\ UNCHANGED credentials
  /\ UNCHANGED notAuthVars
  /\ UNCHANGED <<token, expired, sync_auth_lock, apath, refreshing, refreshes,
                 stale0>>

\* The first check, outside the lock.
async_access_token_check(c) ==
  /\ apc[c] = "a_check"
  /\ apc' = [apc EXCEPT ![c] = IF NeedsRefresh THEN "a_acquire_refresh"
                               ELSE "a_return"]
  /\ UNCHANGED notAuthVars
  /\ UNCHANGED <<credentials, token, expired, sync_auth_lock, async_auth_lock,
                 apath, aresult, refreshing, refreshes, loads, stale0,
                 env_failed>>

\* async with self._async_auth_lock, then the second check; when it finds the
\* token fresh the lock is released at once.
async_access_token_acquire_refresh(c) ==
  /\ apc[c] = "a_acquire_refresh"
  /\ LockFree(async_auth_lock)
  /\ IF DoubleCheckExpired
     THEN /\ async_auth_lock' = c
          /\ refreshing' = refreshing \cup {c}
          /\ refreshes' = refreshes + 1
          /\ apc' = [apc EXCEPT ![c] = "a_refreshing"]
     ELSE /\ async_auth_lock' = 0
          /\ apc' = [apc EXCEPT ![c] = "a_return"]
          /\ UNCHANGED <<refreshing, refreshes>>
  /\ UNCHANGED notAuthVars
  /\ UNCHANGED <<credentials, token, expired, sync_auth_lock, apath, aresult,
                 loads, stale0, env_failed>>

\* await asyncio.to_thread(_refresh_auth, self._credentials) returns or
\* raises; the lock is released on the way out.
async_access_token_refreshed(c) ==
  /\ apc[c] = "a_refreshing"
  /\ refreshing' = refreshing \ {c}
  /\ \E out \in RefreshOutcomes :
       CASE out = "ok" ->
              /\ token' = Token(refreshes)
              /\ expired' = FALSE
              /\ async_auth_lock' = 0
              /\ apc' = [apc EXCEPT ![c] = "a_return"]
              /\ UNCHANGED <<aresult, env_failed>>
         [] out = "no_token" ->
              /\ token' = 0
              /\ expired' = FALSE
              /\ async_auth_lock' = 0
              /\ env_failed' = TRUE
              /\ apc' = [apc EXCEPT ![c] = "a_return"]
              /\ UNCHANGED aresult
         [] out = "raise" ->
              /\ Fail(c)
              /\ async_auth_lock' = LockExit(async_auth_lock)
              /\ env_failed' = TRUE
              /\ UNCHANGED <<token, expired>>
  /\ UNCHANGED notAuthVars
  /\ UNCHANGED <<credentials, sync_auth_lock, apath, refreshes, loads, stale0>>

\* if not self._credentials.token: raise; return self._credentials.token
async_access_token_return(c) ==
  /\ apc[c] = "a_return"
  /\ apc' = [apc EXCEPT ![c] = "done"]
  /\ aresult' = [aresult EXCEPT ![c] = TokenOrError(token)]
  /\ UNCHANGED notAuthVars
  /\ UNCHANGED <<credentials, token, expired, sync_auth_lock, async_auth_lock,
                 apath, refreshing, refreshes, loads, stale0, env_failed>>

(***************************************************************************)
(* Resumable upload.                                                       *)
(***************************************************************************)
MAX_RETRY_COUNT == 3

\* x-goog-upload-status as the server may answer it: no header, a header
\* with an empty value, 'active', 'final', or another value.
UploadStatuses == {"absent", "empty", "active", "final", "cancelled"}

Min(a, b) == IF a < b THEN a ELSE b

\* len(file.read(CHUNK_SIZE)) at read position pos.
ReadLen(pos) == Min(CHUNK_SIZE, file_len - pos)

\* file.read(CHUNK_SIZE) at read position pos: the bytes from pos on.
FileRead(pos) == [from |-> pos, to |-> pos + ReadLen(pos)]

\* chunk_size: len(file_chunk), 0 for an empty read.
ChunkSize(chunk) == chunk.to - chunk.from

UploadCommandNeverFinal(size, off, len) == "upload"

\* upload_command: 'upload', plus ', finalize' on the last chunk.
UploadCommand(size, off, len) ==
  IF len + off >= size THEN "upload, finalize" ELSE "upload"

\* A retry loop that never leaves on a status.
StatusIgnored(status) == FALSE

\* response.headers.get('x-goog-upload-status') is truthy: the header is
\* there and its value is not the empty string.
HasStatus(status) == status \notin {"absent", "empty", "unset"}

LoopEndsOnlyOnFinal(mode, status) == status = "final"

\* The chunk loop's `break`: the status is not 'active' (the async loops
\* also ask that a response exists).
LoopEnds(mode, status) ==
  IF mode = "sync" THEN status # "active"
  ELSE status # "unset" /\ status # "active"

SizeExhaustedStrict(size, off) == size < off

\* upload_size <= offset
SizeExhausted(size, off) == size <= off

FinalCheckSkipped(mode, status) == FALSE

\* After the loop: the status is not 'final' (the async loops also ask that a
\* response exists).
NotFinalized(mode, status) ==
  IF mode = "sync" THEN status # "final"
  ELSE status # "unset" /\ status # "final"

\* No upload in progress.
UploadIdle ==
  /\ umode = "none"
  /\ upc = "idle"
  /\ upload_size = 0
  /\ file_len = 0
  /\ file_pos = 0
  /\ file_chunk = FileRead(0)
  /\ offset = 0
  /\ chunk_size = 0
  /\ upload_command = "none"
  /\ retry_count = 0
  /\ last_status = "unset"
  /\ posts = <<>>
  /\ usleeps = 0
  /\ uresult = "none"

UploadStart(mode) ==
  /\ upc = "idle"
  /\ umode' = mode
  /\ offset' = 0
  /\ upc' = "read"
  /\ UNCHANGED <<upload_size, file_len, file_pos, file_chunk, chunk_size,
                 upload_command, retry_count, last_status, posts, usleeps,
                 uresult>>
  /\ UNCHANGED notUploadVars

\* _upload_fd: offset = 0, then the chunk loop.
_upload_fd == UploadStart("sync")

\* _async_upload_fd, has_aiohttp: the loop over an aiohttp session.
_async_upload_fd_aiohttp == UploadStart("aiohttp")

\* _async_upload_fd without aiohttp: the loop over the httpx client.
_async_upload_fd_httpx == UploadStart("httpx")

\* file.read(CHUNK_SIZE), the command and the headers of the chunk.
ReadChunk ==
  /\ upc = "read"
  /\ LET chunk == FileRead(file_pos)
         len == ChunkSize(chunk)
     IN /\ file_chunk' = chunk
        /\ file_pos' = chunk.to
        /\ chunk_size' = len
        /\ upload_command' = UploadCommand(upload_size, offset, len)
  /\ retry_count' = 0
  /\ upc' = "post"
  /\ UNCHANGED <<umode, upload_size, file_len, offset, last_status, posts,
                 usleeps, uresult>>
  /\ UNCHANGED notUploadVars

\* One POST of the chunk in hand inside `while retry_count < MAX_RETRY_COUNT`:
\* a response with a status header leaves the retry loop, one without it
\* counts a retry and enters time.sleep(delay_seconds).
PostChunk ==
  /\ upc = "post"
  /\ retry_count < MAX_RETRY_COUNT
  /\ Len(posts) < MaxPosts
  /\ \E status \in UploadStatuses :
       /\ posts' = Append(posts, [command |-> upload_command,
                                  offset |-> offset,
                                  length |-> chunk_size,
                                  content |-> file_chunk,
                                  retry_count |-> retry_count,
                                  status |-> status])
       /\ last_status' = status
       /\ IF HasStatus(status)
          THEN /\ upc' = "advance"
               /\ UNCHANGED <<retry_count, usleeps>>
          ELSE /\ retry_count' = retry_count + 1
               /\ usleeps' = usleeps + 1
               /\ upc' = "sleep"
  /\ UNCHANGED <<umode, upload_size, file_len, file_pos, file_chunk, offset,
                 chunk_size, upload_command, uresult>>
  /\ UNCHANGED notUploadVars

\* time.sleep(delay_seconds) returns, and the test of
\* `while retry_count < MAX_RETRY_COUNT` sends the chunk again or gives up.
SleepReturns ==
  /\ upc = "sleep"
  /\ upc' = IF retry_count < MAX_RETRY_COUNT THEN "post" ELSE "advance"
  /\ UNCHANGED <<umode, upload_size, file_len, file_pos, file_chunk, offset,
                 chunk_size, upload_command, retry_count, last_status, posts,
                 usleeps, uresult>>
  /\ UNCHANGED notUploadVars

\* --- the event loop that carries the coroutines of one client

\* The upload loops that run as a coroutine.
Coroutines == {"aiohttp", "httpx"}

\* The wait between two sends of a chunk: the blocking time.sleep in each of
\* the three loops.
UploadSleep(mode) == "time.sleep"

\* The wait for _load_auth and for _refresh_auth in _async_access_token.
AuthWait == "asyncio.to_thread"

\* A wait hands the event loop to the other coroutines when it is awaited;
\* a blocking call keeps the loop's thread until it returns.
Yields(call) == call \in {"asyncio.sleep", "asyncio.to_thread"}

\* The event loop's thread is held inside a blocking call of a coroutine.
CarrierHeld ==
  \/ umode \in Coroutines /\ upc = "sleep" /\ ~Yields(UploadSleep(umode))
  \/ \E c \in Callers :
       /\ apath[c] = "async"
       /\ apc[c] \in {"a_load", "a_refreshing"}
       /\ ~Yields(AuthWait)

\* A step of the coroutine of caller c in _async_access_token: the event
\* loop runs it only when its thread is not held.
AuthCoroutine(c) ==
  /\ ~CarrierHeld
  /\ \/ async_access_token_call(c)
     \/ async_access_token_acquire_load(c)
     \/ async_access_token_load(c)
     \/ async_access_token_check(c)
     \/ async_access_token_acquire_refresh(c)
     \/ async_access_token_refreshed(c)
     \/ async_access_token_return(c)

\* An offset that stays where it was.
OffsetKept(off, len) == off

\* offset += chunk_size
NextOffset(off, len) == off + len

\* offset += chunk_size, then: leave the loop, fail because the declared size
\* is used up, or go on with the next chunk.
Advance ==
  /\ upc = "advance"
  /\ offset' = NextOffset(offset, chunk_size)
  /\ IF LoopEnds(umode, last_status)
     THEN /\ upc' = "finish"
          /\ UNCHANGED uresult
     ELSE IF SizeExhausted(upload_size, NextOffset(offset, chunk_size))
     THEN /\ upc' = "done"
          /\ uresult' = "protocol_violation"
     ELSE /\ upc' = "read"
          /\ UNCHANGED uresult
  /\ UNCHANGED <<umode, upload_size, file_len, file_pos, file_chunk,
                 chunk_size, upload_command, retry_count, last_status, posts,
                 usleeps>>
  /\ UNCHANGED notUploadVars

\* After the loop: fail unless the status is 'final', else return the
\* response.
Finish ==
  /\ upc = "finish"
  /\ uresult' = IF NotFinalized(umode, last_status) THEN "not_finalized"
                ELSE "ok"
  /\ upc' = "done"
  /\ UNCHANGED <<umode, upload_size, file_len, file_pos, file_chunk, offset,
                 chunk_size, upload_command, retry_count, last_status, posts,
                 usleeps>>
  /\ UNCHANGED notUploadVars

(***************************************************************************)
(* Options merger.                                                         *)
(*                                                                         *)
(* An optional value is a sequence: <<>> for None, <<v>> for the value v.  *)
(* A header map is a function from the keys it holds to their values, and  *)
(* a header value is the sequence of the words of its text.                *)
(***************************************************************************)
\* f'google-genai-sdk/{version.__version__} gl-python/...', as one word.
version_header_value == "google-genai-sdk"

TelemetryKeys == {"user-agent", "x-goog-api-client"}

\* `word in value`
Contains(value, word) == \E i \in 1..Len(value) : value[i] = word

\* What _append_library_version_headers leaves under one of its two keys.
LibraryVersionHeader(headers, key) ==
  IF key \in DOMAIN headers
  THEN IF Contains(headers[key], version_header_value) THEN headers[key]
       ELSE <<version_header_value>> \o headers[key]
  ELSE <<version_header_value>>

\* _append_library_version_headers(headers)
_append_library_version_headers(headers) ==
  [k \in DOMAIN headers \cup TelemetryKeys |->
     IF k \in TelemetryKeys THEN LibraryVersionHeader(headers, k)
     ELSE headers[k]]

\* `headers or {}`
HeadersOrEmpty(opt) == IF opt = <<>> THEN <<>> ELSE opt[1]

MergeHeadersBaseWins(options_headers, patch_options_headers) ==
  [k \in DOMAIN options_headers \cup DOMAIN patch_options_headers |->
     IF k \in DOMAIN options_headers THEN options_headers[k]
     ELSE patch_options_headers[k]]

\* {**options_headers, **patch_options_headers}
MergeHeaders(options_headers, patch_options_headers) ==
  [k \in DOMAIN options_headers \cup DOMAIN patch_options_headers |->
     IF k \in DOMAIN patch_options_headers THEN patch_options_headers[k]
     ELSE options_headers[k]]

\* The fields of HttpOptions other than headers that the model carries.
HttpOptionsKeys ==
  {"base_url", "api_version", "timeout", "retry_options", "extra_body"}

PatchValueIfTruthy(base_value, patch_value) ==
  IF patch_value # <<>> /\ patch_value # <<0>> THEN patch_value
  ELSE base_value

\* patch_value if patch_value is not None else getattr(options, key)
PatchValue(base_value, patch_value) ==
  IF patch_value # <<>> THEN patch_value ELSE base_value

\* _patch_http_options(options, patch_options)
_patch_http_options(options, patch_options) ==
  [key \in HttpOptionsKeys \cup {"headers"} |->
     IF key = "headers"
     THEN <<_append_library_version_headers(
              MergeHeaders(HeadersOrEmpty(options.headers),
                           HeadersOrEmpty(patch_options.headers)))>>
     ELSE PatchValue(options[key], patch_options[key])]

\* Header maps over the given plain keys and the two telemetry keys: each
\* plain key is absent or holds `value`; each telemetry key is absent, or
\* holds `agent` with or without the version label in front.
HeaderMaps(keys, value, agent) ==
  { [k \in present |->
       IF k \in TelemetryKeys
       THEN IF k \in labelled THEN <<version_header_value, agent>>
            ELSE <<agent>>
       ELSE value[k]] :
    present \in SUBSET (keys \cup TelemetryKeys),
    labelled \in SUBSET TelemetryKeys }

BaseHeaderValue == [k \in {"a", "b"} |-> IF k = "a" THEN <<"1">> ELSE <<"2">>]

PatchHeaderValue == [k \in {"b", "c"} |-> IF k = "b" THEN <<"3">> ELSE <<"4">>]

\* The base options: what __init__ holds, or any HttpOptions a caller merges.
BaseOptions ==
  [headers : {<<>>} \cup
       {<<h>> : h \in HeaderMaps({"a", "b"}, BaseHeaderValue, "app")},
   base_url : {<<>>, <<"https://base/">>},
   api_version : {<<"v1beta">>},
   timeout : {<<>>, <<1000>>},
   retry_options : {<<>>, <<"base_policy">>},
   extra_body : {<<>>}]

\* The override options.
PatchOptions ==
  [headers : {<<>>} \cup
       {<<h>> : h \in HeaderMaps({"b", "c"}, PatchHeaderValue, "cli")},
   base_url : {<<>>, <<"https://patch/">>},
   api_version : {<<>>, <<"v1">>},
   timeout : {<<>>, <<0>>, <<2500>>},
   retry_options : {<<>>, <<"patch_policy">>},
   extra_body : {<<>>}]

NoOptions ==
  [headers |-> <<>>, base_url |-> <<>>, api_version |-> <<>>,
   timeout |-> <<>>, retry_options |-> <<>>, extra_body |-> <<>>]

\* No merge in progress.
MergeIdle ==
  /\ base_options = NoOptions
  /\ override_options = NoOptions
  /\ mpc = "idle"
  /\ copy_option = NoOptions

\* A call of _patch_http_options(options, patch_options).
PatchHttpOptions ==
  /\ mpc = "idle"
  /\ copy_option' = _patch_http_options(base_options, override_options)
  /\ mpc' = "done"
  /\ UNCHANGED <<base_options, override_options>>
  /\ UNCHANGED notMergeVars

(***************************************************************************)
(* Retry orchestrator.                                                     *)
(***************************************************************************)
_RETRY_ATTEMPTS == 3

_RETRY_HTTP_STATUS_CODES == {408, 429, 500, 502, 503, 504}

\* Status codes the modelled server answers with.
ServerStatusCodes == {200, 404, 429, 500}

\* http_status_codes a caller may configure ({} stands for "not set").
PolicyCodeSets == SUBSET {200, 429, 500}

\* HttpRetryOptions values; attempts = 0 stands for a falsy (0 or unset) value.
HttpRetryOptions ==
  [is_none : {FALSE}, attempts : 0..MaxAttempts,
   http_status_codes : PolicyCodeSets]

\* retry_options is None: no retry policy is configured.
NoRetryOptions == [is_none |-> TRUE, attempts |-> 0, http_status_codes |-> {}]

NoOutcome == [kind |-> "none", status_code |-> 0, server |-> 0, attempt |-> 0]

\* The generic wrapper tenacity raises when reraise is off or the last
\* attempt did not fail.
RetryError ==
  [kind |-> "exception", status_code |-> -1, server |-> 0, attempt |-> 0]

\* HttpResponse.__init__: status_code is always 200, whatever the server sent.
HttpResponse(server, k) ==
  [kind |-> "result", status_code |-> 200, server |-> server, attempt |-> k]

\* errors.APIError raised by raise_for_response: carries the response's code.
APIError(server, k) ==
  [kind |-> "exception", status_code |-> server, server |-> server,
   attempt |-> k]

\* An exchange that ends without a response (httpx raises on a connection
\* failure or a timeout): the attempt raises an error that has no status.
TransportError(k) ==
  [kind |-> "exception", status_code |-> 0, server |-> 0, attempt |-> k]

\* errors.APIError.raise_for_response: raises on a non-success status.
raise_for_response(server) == ~(server \in 200..299)

\* _request_once / _async_request_once after the exchange: the outcome of
\* attempt k when the server answered with status `server`.
_request_once(server, k) ==
  IF raise_for_response(server) THEN APIError(server, k)
  ELSE HttpResponse(server, k)

stop_after_attempt_off_by_one(max_attempt_number, n) == n > max_attempt_number

\* tenacity.stop_after_attempt(max_attempt_number) applied to attempt n.
stop_after_attempt(max_attempt_number, n) == n >= max_attempt_number

retry_if_result_or_exception(codes, outcome) == outcome.status_code \in codes

\* tenacity.retry_if_result(lambda response: response.status_code in codes):
\* never retries an attempt that raised.
retry_if_result(codes, outcome) ==
  outcome.kind = "result" /\ outcome.status_code \in codes

\* tenacity's default retry: retry_if_exception_type() retries any exception.
retry_if_exception_type(outcome) == outcome.kind = "exception"

retry_args_default_policy(options) ==
  IF options.is_none
  THEN [stop |-> _RETRY_ATTEMPTS, retry |-> "retry_if_exception_type",
        codes |-> {}, retry_error_callback |-> FALSE, wait |-> "wait_none"]
  ELSE [stop |-> IF options.attempts = 0 THEN _RETRY_ATTEMPTS
                 ELSE options.attempts,
        retry |-> "retry_if_result",
        codes |-> IF options.http_status_codes = {}
                  THEN _RETRY_HTTP_STATUS_CODES
                  ELSE options.http_status_codes,
        retry_error_callback |-> TRUE,
        wait |-> "wait_exponential_jitter"]

\* _retry_args: the arguments of tenacity.(Async)Retrying.
_retry_args(options) ==
  IF options.is_none
  THEN [stop |-> 1, retry |-> "retry_if_exception_type",
        codes |-> {}, retry_error_callback |-> FALSE, wait |-> "wait_none"]
  ELSE [stop |-> IF options.attempts = 0 THEN _RETRY_ATTEMPTS
                 ELSE options.attempts,
        retry |-> "retry_if_result",
        codes |-> IF options.http_status_codes = {}
                  THEN _RETRY_HTTP_STATUS_CODES
                  ELSE options.http_status_codes,
        retry_error_callback |-> TRUE,
        wait |-> "wait_exponential_jitter"]

retry_error_callback_wrapper(outcome) == RetryError

\* retry_error_callback = lambda retry_state: retry_state.outcome.result()
retry_error_callback(outcome) == outcome

\* RetryError.reraise() under reraise=True: the last attempt's own exception
\* when it failed, the wrapper otherwise.
reraise(outcome) == IF outcome.kind = "exception" THEN outcome ELSE RetryError

\* self._retry / self._async_retry: both are built from the same arguments.
RetryKwargs == _retry_args(retry_options)

ShouldRetry(args, outcome) ==
  IF args.retry = "retry_if_result" THEN retry_if_result(args.codes, outcome)
  ELSE retry_if_exception_type(outcome)

LastOutcome == IF outcomes = <<>> THEN NoOutcome ELSE outcomes[Len(outcomes)]

\* _request: self._retry(self._request_once, http_request, stream)
_request ==
  /\ rpc = "idle"
  /\ rmode' = "sync"
  /\ rpc' = "attempt"
  /\ attempt_number' = 1
  /\ UNCHANGED <<retry_options, outcomes, sleeps, returned>>
  /\ UNCHANGED notRetryVars

\* _async_request: await self._async_retry(self._async_request_once, ...)
_async_request ==
  /\ rpc = "idle"
  /\ rmode' = "async"
  /\ rpc' = "attempt"
  /\ attempt_number' = 1
  /\ UNCHANGED <<retry_options, outcomes, sleeps, returned>>
  /\ UNCHANGED notRetryVars

\* BaseRetrying.iter on the attempt's outcome: return it, stop, or sleep.
RetryIter ==
  /\ rpc = "iter"
  /\ LET args == RetryKwargs
         fut  == LastOutcome
     IN IF ~ShouldRetry(args, fut)
        THEN /\ returned' = fut
             /\ rpc' = "done"
        ELSE IF stop_after_attempt(args.stop, attempt_number)
        THEN /\ returned' = IF args.retry_error_callback
                            THEN retry_error_callback(fut)
                            ELSE reraise(fut)
             /\ rpc' = "done"
        ELSE /\ returned' = returned
             /\ rpc' = "sleep"
  /\ UNCHANGED <<retry_options, rmode, attempt_number, outcomes, sleeps>>
  /\ UNCHANGED notRetryVars

\* DoSleep: prepare_for_next_attempt, then the sleep.
DoSleep ==
  /\ rpc = "sleep"
  /\ attempt_number' = attempt_number + 1
  /\ sleeps' = sleeps + 1
  /\ rpc' = "attempt"
  /\ UNCHANGED <<retry_options, rmode, outcomes, returned>>
  /\ UNCHANGED notRetryVars

(***************************************************************************)
(* Text and URLs.                                                          *)
(*                                                                         *)
(* A string is the sequence of its pieces: the delimiters ":", "/", "?",   *)
(* "#" and " " are pieces of their own, and every other piece is a run of  *)
(* characters that holds no delimiter.  "https://h/v1" is                  *)
(* <<"https", ":", "/", "/", "h", "/", "v1">>.                             *)
(***************************************************************************)
\* s.startswith(prefix)
StartsWith(s, prefix) ==
  /\ Len(s) >= Len(prefix)
  /\ SubSeq(s, 1, Len(prefix)) = prefix

\* s.endswith(suffix)
EndsWith(s, suffix) ==
  /\ Len(s) >= Len(suffix)
  /\ SubSeq(s, Len(s) - Len(suffix) + 1, Len(s)) = suffix

\* s[n:]
DropFirst(s, n) == SubSeq(s, n + 1, Len(s))

\* s[:-1]
DropLast(s) == SubSeq(s, 1, Len(s) - 1)

\* Index of the first piece of s that is in `pieces`, Len(s) + 1 when none.
FirstIndex(s, pieces) ==
  IF \E i \in 1..Len(s) : s[i] \in pieces
  THEN CHOOSE i \in 1..Len(s) :
         /\ s[i] \in pieces
         /\ \A j \in 1..(i - 1) : s[j] \notin pieces
  ELSE Len(s) + 1

\* urllib.parse.urlparse(url), for a url without ";params".
urlparse(url) ==
  LET has_scheme == Len(url) >= 2 /\ url[2] = ":" /\ url[1] \notin
                       {":", "/", "?", "#", " "}
      scheme == IF has_scheme THEN <<url[1]>> ELSE <<>>
      rest1 == IF has_scheme THEN DropFirst(url, 2) ELSE url
      has_netloc == StartsWith(rest1, <<"/", "/">>)
      after == IF has_netloc THEN DropFirst(rest1, 2) ELSE rest1
      netloc_end == FirstIndex(after, {"/", "?", "#"})
      netloc == IF has_netloc THEN SubSeq(after, 1, netloc_end - 1) ELSE <<>>
      rest2 == IF has_netloc THEN DropFirst(after, netloc_end - 1) ELSE after
      frag_at == FirstIndex(rest2, {"#"})
      fragment == DropFirst(rest2, frag_at)
      rest3 == SubSeq(rest2, 1, frag_at - 1)
      query_at == FirstIndex(rest3, {"?"})
  IN [scheme |-> scheme, netloc |-> netloc,
      path |-> SubSeq(rest3, 1, query_at - 1),
      query |-> DropFirst(rest3, query_at),
      fragment |-> fragment]

\* urllib.parse.urlunparse(parsed), for an http(s) or scheme-less url.
urlunparse(parsed) ==
  LET with_netloc ==
        IF \/ parsed.netloc # <<>>
           \/ (parsed.scheme # <<>> /\ ~StartsWith(parsed.path, <<"/", "/">>))
        THEN <<"/", "/">> \o parsed.netloc \o
             (IF parsed.path # <<>> /\ parsed.path[1] # "/"
              THEN <<"/">> \o parsed.path ELSE parsed.path)
        ELSE parsed.path
      with_scheme == IF parsed.scheme # <<>>
                     THEN parsed.scheme \o <<":">> \o with_netloc
                     ELSE with_netloc
      with_query == IF parsed.query # <<>>
                    THEN with_scheme \o <<"?">> \o parsed.query
                    ELSE with_scheme
  IN IF parsed.fragment # <<>> THEN with_query \o <<"#">> \o parsed.fragment
     ELSE with_query

\* A join that keeps every slash of both sides.
join_url_path_keeping_slashes(base_url, url_path) ==
  LET parsed_base == urlparse(base_url)
  IN urlunparse([parsed_base EXCEPT !.path = @ \o <<"/">> \o url_path])

\* _join_url_path(base_url, path)
_join_url_path(base_url, url_path) ==
  LET parsed_base == urlparse(base_url)
      base_path == IF EndsWith(parsed_base.path, <<"/">>)
                   THEN DropLast(parsed_base.path)
                   ELSE parsed_base.path
      stripped == IF StartsWith(url_path, <<"/">>) THEN DropFirst(url_path, 1)
                  ELSE url_path
  IN urlunparse([parsed_base EXCEPT !.path = base_path \o <<"/">> \o stripped])

(***************************************************************************)
(* Construction of the client (BaseApiClient.__init__).                    *)
(*                                                                         *)
(* An optional string is <<>> for None and <<s>> for the string s; the     *)
(* empty string is <<<<>>>>.                                               *)
(***************************************************************************)
\* Truth value of an optional string or object: None and '' are falsy.
Truthy(opt) == opt # <<>> /\ opt[1] # <<>>

\* `a or b`
Or(a, b) == IF Truthy(a) THEN a ELSE b

\* The white space that str.strip() and json.loads pass over.
WhiteSpace == {" ", "\n"}

\* s.strip()
strip(s) ==
  IF \A i \in 1..Len(s) : s[i] \in WhiteSpace THEN <<>>
  ELSE LET first == CHOOSE i \in 1..Len(s) :
                      /\ s[i] \notin WhiteSpace
                      /\ \A j \in 1..(i - 1) : s[j] \in WhiteSpace
           last == CHOOSE i \in 1..Len(s) :
                     /\ s[i] \notin WhiteSpace
                     /\ \A j \in (i + 1)..Len(s) : s[j] \in WhiteSpace
       IN SubSeq(s, first, last)

\* The fixed public endpoint of the Gemini Developer API.
GeminiBaseUrl ==
  <<"https", ":", "/", "/", "generativelanguage.googleapis.com", "/">>

\* The global Vertex AI endpoint.
VertexGlobalBaseUrl ==
  <<"https", ":", "/", "/", "aiplatform.googleapis.com", "/">>

\* f'https://{self.location}-aiplatform.googleapis.com/'
VertexRegionalBaseUrl(loc) ==
  <<"https", ":", "/", "/">> \o loc \o <<"-aiplatform.googleapis.com", "/">>

\* The base URL the constructor chose were the location never looked at.
VertexBaseUrlAlwaysGlobal(key, loc) == VertexGlobalBaseUrl

\* Lines 517-522: the Vertex AI base URL for the resolved key and location.
VertexBaseUrl(key, loc) ==
  IF Truthy(key) \/ loc = <<<<"global">>>> THEN VertexGlobalBaseUrl
  ELSE VertexRegionalBaseUrl(IF loc = <<>> THEN <<"None">> ELSE loc[1])

\* self.vertexai after lines 428-434.
ResolveVertexai(args, env) ==
  IF args.vertexai = <<>> /\ env.GOOGLE_GENAI_USE_VERTEXAI THEN <<TRUE>>
  ELSE args.vertexai

\* The validation of lines 436-448 placed after nothing: it accepts all.
ExplicitConflictIgnored(args) == "none"

\* Lines 436-448: the validation of the explicitly set initializer values.
ExplicitConflict(args) ==
  IF (Truthy(args.project) \/ Truthy(args.location)) /\ Truthy(args.api_key)
  THEN "project_location_and_api_key"
  ELSE IF args.credentials # <<>> /\ Truthy(args.api_key)
  THEN "credentials_and_api_key"
  ELSE "none"

\* Lines 483-509: which of the explicit and implicit values Vertex AI keeps.
VertexPrecedence(args, env) ==
  LET all == [project |-> Or(args.project, env.GOOGLE_CLOUD_PROJECT),
              location |-> Or(args.location, env.GOOGLE_CLOUD_LOCATION),
              api_key |-> Or(args.api_key, env.api_key)]
      env_place == Truthy(env.GOOGLE_CLOUD_LOCATION)
                     \/ Truthy(env.GOOGLE_CLOUD_PROJECT)
  IN IF args.credentials # <<>> THEN [all EXCEPT !.api_key = <<>>]
     ELSE IF env_place /\ Truthy(args.api_key)
     THEN [all EXCEPT !.project = <<>>, !.location = <<>>]
     ELSE IF (Truthy(args.project) \/ Truthy(args.location))
               /\ Truthy(env.api_key)
     THEN [all EXCEPT !.api_key = <<>>]
     ELSE IF env_place /\ Truthy(env.api_key)
     THEN [all EXCEPT !.api_key = <<>>]
     ELSE all

\* Lines 539-543: the default headers of both clients.
DefaultHeaders(key) ==
  IF Truthy(key)
  THEN [k \in {"Content-Type", "x-goog-api-key"} |->
          IF k = "Content-Type" THEN <<"application/json">>
          ELSE strip(key[1])]
  ELSE [k \in {"Content-Type"} |-> <<"application/json">>]

\* The client that does not exist (yet, or because construction failed).
NoClient ==
  [error |-> "none", vertexai |-> <<>>, api_key |-> <<>>, project |-> <<>>,
   location |-> <<>>, credentials |-> "none", loads |-> 0,
   http_options |-> NoOptions]

\* Lines 539-553: default headers, the stripped key, and the user's options.
WithOptions(client, args, base_url, api_version) ==
  LET key == IF Truthy(client.api_key) THEN <<strip(client.api_key[1])>>
             ELSE client.api_key
      defaults == [NoOptions EXCEPT
                     !.base_url = <<base_url>>,
                     !.api_version = <<api_version>>,
                     !.headers = <<DefaultHeaders(client.api_key)>>]
  IN [client EXCEPT
        !.api_key = key,
        !.http_options =
           IF args.http_options # <<>>
           THEN _patch_http_options(defaults, args.http_options[1])
           ELSE [defaults EXCEPT !.headers =
                   <<_append_library_version_headers(@[1])>>]]

\* BaseApiClient.__init__(vertexai, api_key, credentials, project, location,
\* http_options) in the environment env: the fields of the new client, or
\* the error raised and the fields assigned before it.
Construct(args, env) ==
  LET vx == ResolveVertexai(args, env)
      conflict == ExplicitConflict(args)
      plain == [NoClient EXCEPT
                  !.vertexai = vx,
                  !.project = Or(args.project, env.GOOGLE_CLOUD_PROJECT),
                  !.location = Or(args.location, env.GOOGLE_CLOUD_LOCATION),
                  !.api_key = Or(args.api_key, env.api_key),
                  !.credentials = IF args.credentials # <<>> THEN "set"
                                  ELSE "none"]
      kept == VertexPrecedence(args, env)
      vertex == [plain EXCEPT !.project = kept.project,
                              !.location = kept.location,
                              !.api_key = kept.api_key]
      discover == ~Truthy(vertex.project) /\ ~Truthy(vertex.api_key)
      loaded == IF discover
                THEN [vertex EXCEPT !.loads = 1,
                                    !.project = env.adc_project,
                                    !.credentials = "set"]
                ELSE vertex
  IN IF conflict # "none"
     THEN [NoClient EXCEPT !.error = conflict, !.vertexai = vx]
     ELSE IF vx = <<TRUE>>
     THEN IF discover /\ env.adc_raises
          THEN [vertex EXCEPT !.error = "load_auth", !.loads = 1]
          ELSE IF ~((Truthy(loaded.project) /\ Truthy(loaded.location))
                      \/ Truthy(loaded.api_key))
          THEN [loaded EXCEPT !.error = "project_and_location_or_api_key"]
          ELSE WithOptions(loaded, args,
                           VertexBaseUrl(loaded.api_key, loaded.location),
                           <<"v1beta1">>)
     ELSE IF ~Truthy(plain.api_key)
     THEN [plain EXCEPT !.error = "missing_key"]
     ELSE WithOptions(plain, args, GeminiBaseUrl, <<"v1beta">>)

(***************************************************************************)
(* Requests: _build_request and the calls that use it.                     *)
(***************************************************************************)
\* A number of seconds is the fraction num / den.
\* _get_timeout_in_seconds(timeout): None for a falsy timeout, else
\* timeout / 1000.0.
_get_timeout_in_seconds(timeout) ==
  IF timeout = <<>> \/ timeout = <<0>> THEN <<>>
  ELSE <<[num |-> timeout[1], den |-> 1000]>>

\* str(math.ceil(timeout_in_seconds))
CeilSeconds(seconds) ==
  ToString((seconds.num + seconds.den - 1) \div seconds.den)

\* _populate_server_timeout_header(headers, timeout_in_seconds)
_populate_server_timeout_header(headers, timeout_in_seconds) ==
  IF timeout_in_seconds # <<>> /\ "X-Server-Timeout" \notin DOMAIN headers
  THEN [k \in DOMAIN headers \cup {"X-Server-Timeout"} |->
          IF k = "X-Server-Timeout"
          THEN <<CeilSeconds(timeout_in_seconds[1])>>
          ELSE headers[k]]
  ELSE headers

\* A builder that never puts anything in front of the path.
PathAsGiven(method, url_path) == url_path

\* Lines 766-779: the path with project and location put in front of it.
PrefixedPath(method, url_path) ==
  LET query_vertex_base_models ==
        /\ vertexai = <<TRUE>>
        /\ method = "get"
        /\ StartsWith(url_path,
                      <<"publishers", "/", "google", "/", "models">>)
  IN IF /\ vertexai = <<TRUE>>
        /\ ~StartsWith(url_path, <<"projects", "/">>)
        /\ ~query_vertex_base_models
        /\ ~Truthy(api_key)
     THEN <<"projects", "/">>
            \o (IF project = <<>> THEN <<"None">> ELSE project[1])
            \o <<"/", "locations", "/">>
            \o (IF location = <<>> THEN <<"None">> ELSE location[1])
            \o <<"/">> \o url_path
     ELSE url_path

\* Lines 781-784: the version put in front of the path.
VersionedPath(api_version, url_path) ==
  IF api_version = <<>> THEN <<"/">> \o url_path
  ELSE api_version[1] \o <<"/">> \o url_path

\* self.api_key and self.api_key.startswith('auth_tokens/')
IsEphemeralKey(key) ==
  Truthy(key) /\ StartsWith(key[1], <<"auth_tokens", "/">>)

\* A build that lets an ephemeral key through.
EphemeralKeyAccepted(key) == FALSE

\* Lines 809-812: the key is one that only the live API accepts.
EphemeralKeyRejected(key) == IsEphemeralKey(key)

\* An HttpRequest: `headers` is the header map as it reads now, and `shared`
\* tells that the map is the one self._http_options holds, not a map of the
\* request's own.
NoRequest ==
  [url |-> <<>>, headers |-> <<>>, data |-> <<>>, timeout |-> <<>>,
   shared |-> FALSE]

\* A body is a map from its top-level keys to their values; a key is a
\* string in pieces, "_" being a piece of its own.

\* A strip that deletes nothing.
KeysKept(fields) == fields

\* Lines 750-753: the keys that start with '_' are deleted.
WithoutSpecialKeys(fields) ==
  [key \in {k \in DOMAIN fields : ~StartsWith(k, <<"_">>)} |-> fields[key]]

\* _common.recursive_dict_update(target, update): every key of update is
\* put into target (a value that is an object on both sides is merged
\* the same way, which leaves the top-level keys as they are).
recursive_dict_update(target, update) ==
  [key \in DOMAIN target \cup DOMAIN update |->
     IF key \in DOMAIN update THEN update[key] ELSE target[key]]

\* Lines 750-753 and 796-802: the body of the request.
RequestData(fields, extra_body) ==
  IF extra_body # <<>> /\ extra_body[1] # <<>>
  THEN recursive_dict_update(WithoutSpecialKeys(fields), extra_body[1])
  ELSE WithoutSpecialKeys(fields)

\* The request as it reads once the header map of self._http_options is
\* base_headers: a request that holds that very map reads the same.
Seen(req, base_headers) ==
  IF req.shared THEN [req EXCEPT !.headers = base_headers] ELSE req

\* _build_request(http_method, path, request_dict, http_options) on the
\* client in hand: the error raised or the HttpRequest built, and
\* self._http_options as the call leaves it.
_build_request(method, url_path, fields, call_options) ==
  LET patched_http_options ==
        IF call_options # <<>>
        THEN _patch_http_options(_http_options, call_options[1])
        ELSE _http_options
      versioned_path == VersionedPath(patched_http_options.api_version,
                                      PrefixedPath(method, url_path))
      timeout_in_seconds ==
        _get_timeout_in_seconds(patched_http_options.timeout)
      failed(e) == [error |-> e, request |-> NoRequest,
                    patched |-> patched_http_options,
                    self_http_options |-> _http_options]
  IN IF ~Truthy(patched_http_options.base_url)
     THEN failed("Base URL must be set.")
     ELSE IF EphemeralKeyRejected(api_key)
     THEN failed("EphemeralTokenAPIKeyError")
     ELSE IF patched_http_options.headers = <<>>
     THEN failed("Request headers must be set.")
     ELSE LET headers == _populate_server_timeout_header(
                           patched_http_options.headers[1],
                           timeout_in_seconds)
          IN [error |-> "none",
              request |->
                [url |-> _join_url_path(patched_http_options.base_url[1],
                                        versioned_path),
                 headers |-> <<headers>>,
                 data |-> RequestData(fields,
                                      patched_http_options.extra_body),
                 timeout |-> timeout_in_seconds,
                 shared |-> call_options = <<>>],
              patched |-> patched_http_options,
              self_http_options |->
                IF call_options # <<>> THEN _http_options
                ELSE [_http_options EXCEPT !.headers = <<headers>>]]

\* Arguments of the constructor the model draws from.
NoArgs ==
  [vertexai |-> <<>>, api_key |-> <<>>, credentials |-> <<>>,
   project |-> <<>>, location |-> <<>>, http_options |-> <<>>]

\* The process environment: the variables the constructor reads and what
\* google.auth.default() would answer.
NoEnvironment ==
  [GOOGLE_GENAI_USE_VERTEXAI |-> FALSE, GOOGLE_CLOUD_PROJECT |-> <<>>,
   GOOGLE_CLOUD_LOCATION |-> <<>>, api_key |-> <<>>,
   adc_raises |-> FALSE, adc_project |-> <<<<"adc-project">>>>,
   quota_project_id |-> <<>>]

Environments ==
  [GOOGLE_GENAI_USE_VERTEXAI : BOOLEAN,
   GOOGLE_CLOUD_PROJECT : {<<>>, <<<<"env-project">>>>},
   GOOGLE_CLOUD_LOCATION : {<<>>, <<<<"env-location">>>>},
   api_key : {<<>>, <<<<"env-key">>>>},
   adc_raises : BOOLEAN,
   adc_project : {<<<<"adc-project">>>>},
   quota_project_id : {<<>>}]

\* A retry policy a caller passes in http_options.
PolicyOf(attempts, codes) ==
  [is_none |-> FALSE, attempts |-> attempts, http_status_codes |-> codes]

\* http_options a caller passes to the constructor.
CtorHttpOptions ==
  {<<>>,
   <<[NoOptions EXCEPT !.base_url = <<<<"https", ":", "/", "/", "h">>>>]>>,
   <<[NoOptions EXCEPT
        !.base_url = <<<<"https", ":", "/", "/", "h", "/", "a", "/">>>>,
        !.api_version = <<<<>>>>]>>,
   <<[NoOptions EXCEPT !.retry_options = <<PolicyOf(MaxAttempts, {200})>>,
                       !.timeout = <<2500>>]>>}

CtorArgs ==
  [vertexai : {<<>>, <<TRUE>>, <<FALSE>>},
   api_key : {<<>>, <<<<>>>>, <<<<"key">>>>},
   credentials : {<<>>, <<"creds">>},
   project : {<<>>, <<<<"proj">>>>},
   location : {<<>>, <<<<"us-central1">>>>, <<<<"global">>>>},
   http_options : CtorHttpOptions]

\* The policy self._retry and self._async_retry are built from (line 564).
ClientRetryOptions(client_options) ==
  IF client_options.retry_options = <<>> THEN NoRetryOptions
  ELSE client_options.retry_options[1]

\* No client yet.
ClientNew ==
  /\ cpc = "new"
  /\ ctor_args = NoArgs
  /\ environ = NoEnvironment
  /\ ctor_error = "none"
  /\ vertexai = NoClient.vertexai
  /\ api_key = NoClient.api_key
  /\ project = NoClient.project
  /\ location = NoClient.location
  /\ _http_options = NoClient.http_options

\* No call in progress.
CallIdle ==
  /\ qkind = "none"
  /\ qpc = "idle"
  /\ http_method = "none"
  /\ path = <<>>
  /\ request_dict = <<>>
  /\ http_options = <<>>
  /\ http_request = NoRequest
  /\ call_error = "none"
  /\ sent = <<>>
  /\ built_headers = <<>>
  /\ peer_pc = "idle"
  /\ peer_request = NoRequest

\* The client is the one BaseApiClient(**args) built in environment env.
Constructed(args, env) ==
  LET client == Construct(args, env)
  IN /\ ctor_args = args
     /\ environ = env
     /\ ctor_error = client.error
     /\ cpc = IF client.error = "none" THEN "ready" ELSE "failed"
     /\ vertexai = client.vertexai
     /\ api_key = client.api_key
     /\ project = client.project
     /\ location = client.location
     /\ _http_options = client.http_options
     /\ credentials = client.credentials
     /\ loads = client.loads
     /\ retry_options = ClientRetryOptions(client.http_options)

\* BaseApiClient.__init__ called with one of the given arguments in one of
\* the given environments.
Initialize(arguments, environments) ==
  /\ cpc = "new"
  /\ \E args \in arguments, env \in environments :
       LET client == Construct(args, env)
       IN /\ ctor_args' = args
          /\ environ' = env
          /\ ctor_error' = client.error
          /\ cpc' = IF client.error = "none" THEN "ready" ELSE "failed"
          /\ vertexai' = client.vertexai
          /\ api_key' = client.api_key
          /\ project' = client.project
          /\ location' = client.location
          /\ _http_options' = client.http_options
          /\ credentials' = client.credentials
          /\ loads' = client.loads
          /\ retry_options' = ClientRetryOptions(client.http_options)
  /\ UNCHANGED <<rmode, rpc, attempt_number, outcomes, sleeps, returned>>
  /\ UNCHANGED <<token, expired, sync_auth_lock, async_auth_lock, apc, apath,
                 aresult, refreshing, refreshes, stale0, env_failed>>
  /\ UNCHANGED <<uploadVars, mergeVars, callVars, streamVars>>

\* BaseApiClient.__init__
__init__ == Initialize(CtorArgs, Environments)

\* The calls that send their request once, outside the retry loop.
DownloadCalls == {"download_file", "async_download_file"}

HttpMethods == {"get", "post"}

\* Paths a caller passes: every string of at most MaxPathLen pieces over
\* "/" and "x", and two paths that _build_request treats specially.
Paths ==
  UNION {[1..n -> {"/", "x"}] : n \in 0..MaxPathLen}
    \cup {<<"projects", "/", "q">>,
          <<"publishers", "/", "google", "/", "models">>}

\* Per-call http_options.
CallHttpOptions ==
  {<<>>,
   <<[NoOptions EXCEPT !.base_url = <<<<>>>>]>>,
   <<[NoOptions EXCEPT
        !.base_url = <<<<"https", ":", "/", "/", "o", "/", "b">>>>]>>,
   <<[NoOptions EXCEPT !.retry_options = <<PolicyOf(1, {})>>]>>,
   <<[NoOptions EXCEPT !.retry_options = <<PolicyOf(2, {200})>>,
                       !.timeout = <<1000>>]>>}

\* The start of a call: _build_request, then the hand-over to the retry
\* loop (request, request_streamed and their async forms) or to the single
\* exchange of a download.
StartCall(kind, method, url_path, fields, call_options) ==
  LET built == _build_request(method, url_path, fields, call_options)
  IN /\ cpc = "ready"
     /\ qpc = "idle"
     /\ qkind' = kind
     /\ http_method' = method
     /\ path' = url_path
     /\ request_dict' = fields
     /\ http_options' = call_options
     /\ http_request' = built.request
     /\ built_headers' = built.request.headers
     /\ call_error' = built.error
     /\ _http_options' = built.self_http_options
     /\ peer_request' = Seen(peer_request, built.self_http_options.headers)
     /\ IF built.error # "none"
        THEN /\ qpc' = "failed"
             /\ UNCHANGED retryVars
        ELSE IF kind \in DownloadCalls
        THEN /\ qpc' = "send"
             /\ UNCHANGED retryVars
        ELSE /\ qpc' = "retrying"
             /\ rmode' = IF kind \in {"request", "request_streamed"}
                         THEN "sync" ELSE "async"
             /\ rpc' = "attempt"
             /\ attempt_number' = 1
             /\ UNCHANGED <<retry_options, outcomes, sleeps, returned>>
     /\ UNCHANGED <<cpc, ctor_args, environ, ctor_error, vertexai, api_key,
                    project, location, sent, peer_pc>>
     /\ UNCHANGED <<authVars, uploadVars, mergeVars, streamVars>>

\* request(http_method, path, request_dict, http_options)
request ==
  \E method \in HttpMethods, url_path \in Paths,
     call_options \in CallHttpOptions :
    StartCall("request", method, url_path, <<>>, call_options)

\* request_streamed(http_method, path, request_dict, http_options)
request_streamed ==
  \E method \in HttpMethods, url_path \in Paths,
     call_options \in CallHttpOptions :
    StartCall("request_streamed", method, url_path, <<>>, call_options)

\* async_request(http_method, path, request_dict, http_options)
async_request ==
  \E method \in HttpMethods, url_path \in Paths,
     call_options \in CallHttpOptions :
    StartCall("async_request", method, url_path, <<>>, call_options)

\* async_request_streamed(http_method, path, request_dict, http_options)
async_request_streamed ==
  \E method \in HttpMethods, url_path \in Paths,
     call_options \in CallHttpOptions :
    StartCall("async_request_streamed", method, url_path, <<>>, call_options)

\* download_file(path, http_options): the request is built with 'get'.
download_file ==
  \E url_path \in Paths, call_options \in CallHttpOptions :
    StartCall("download_file", "get", url_path, <<>>, call_options)

\* async_download_file(path, http_options)
async_download_file ==
  \E url_path \in Paths, call_options \in CallHttpOptions :
    StartCall("async_download_file", "get", url_path, <<>>, call_options)

\* The single exchange of download_file / async_download_file: no retry
\* loop is around it.
DownloadExchange ==
  /\ qpc = "send"
  /\ sent' = Append(sent, [attempt |-> 1, headers |-> http_request.headers,
                           token |-> NoResult])
  /\ \/ \E server \in ServerStatusCodes :
          /\ outcomes' = Append(outcomes, _request_once(server, 1))
          /\ returned' = _request_once(server, 1)
     \/ /\ outcomes' = Append(outcomes, TransportError(1))
        /\ returned' = TransportError(1)
  /\ qpc' = "done"
  /\ UNCHANGED <<retry_options, rmode, rpc, attempt_number, sleeps>>
  /\ UNCHANGED <<qkind, http_method, path, request_dict, http_options,
                 http_request, call_error, built_headers, peer_pc,
                 peer_request>>
  /\ UNCHANGED <<clientVars, authVars, uploadVars, mergeVars, streamVars>>

\* `self.vertexai and not self.api_key` (lines 835, 885)
OAuthMode == vertexai = <<TRUE>> /\ ~Truthy(api_key)

\* headers[key] = value
WithHeader(headers, key, value) ==
  [k \in DOMAIN headers \cup {key} |-> IF k = key THEN value ELSE headers[k]]

\* f'Bearer {token}'
Bearer(held) == <<"Bearer", " ", ToString(held)>>

\* An Authorization header that is written only when none is there yet.
AuthorizationIfAbsent(headers, held) ==
  IF "Authorization" \in DOMAIN headers THEN headers
  ELSE WithHeader(headers, "Authorization", Bearer(held))

\* http_request.headers['Authorization'] = f'Bearer {token}'
Authorization(headers, held) ==
  WithHeader(headers, "Authorization", Bearer(held))

\* Lines 836-840, 886-893: the headers of an OAuth attempt.
AuthHeaders(headers, held) ==
  LET authorized == Authorization(headers, held)
  IN IF Truthy(environ.quota_project_id)
     THEN WithHeader(authorized, "x-goog-user-project",
                     environ.quota_project_id[1])
     ELSE authorized

\* The attempt raised before any exchange: the credential manager failed.
AuthError(k) ==
  [kind |-> "exception", status_code |-> -2, server |-> 0, attempt |-> k]

\* What the credential holds after credentials.refresh, and what the
\* caller gets.
Refreshed(cred, out) ==
  CASE out = "ok" ->
         [cred EXCEPT !.token = Token(cred.refreshes + 1),
                      !.expired = FALSE,
                      !.refreshes = cred.refreshes + 1,
                      !.result = Token(cred.refreshes + 1)]
    [] out = "no_token" ->
         [cred EXCEPT !.token = 0, !.expired = FALSE,
                      !.refreshes = cred.refreshes + 1,
                      !.result = ErrorResult]
    [] out = "raise" ->
         [cred EXCEPT !.refreshes = cred.refreshes + 1,
                      !.result = ErrorResult]

\* self._access_token() / await self._async_access_token() by a caller
\* that meets no other caller inside: the credential as the call leaves
\* it, and the token returned or the error raised.
_access_token ==
  LET held == [credentials |-> credentials, token |-> token,
               expired |-> expired, refreshes |-> refreshes,
               loads |-> loads, result |-> TokenOrError(token)]
      loaded == IF NotCredentials
                THEN {[held EXCEPT !.credentials = "set",
                                   !.loads = loads + 1],
                      [held EXCEPT !.loads = loads + 1,
                                   !.result = ErrorResult]}
                ELSE {held}
  IN UNION {IF cred.credentials = "none" THEN {cred}
            ELSE IF cred.expired \/ cred.token = 0
            THEN {Refreshed(cred, out) : out \in RefreshOutcomes}
            ELSE {cred} : cred \in loaded}

\* The exchange of attempt k with the server, then raise_for_response,
\* then the HttpResponse: the outcomes it may have.
Exchange(k) ==
  {_request_once(server, k) : server \in ServerStatusCodes}
    \cup {TransportError(k)}

\* One execution of the wrapped operation, _request_once or
\* _async_request_once: in OAuth mode the token is asked for and written
\* into the headers of the request, then the exchange with the server.
DoAttempt ==
  /\ rpc = "attempt"
  /\ IF OAuthMode
     THEN /\ NotCredentials => loads < MaxRefreshes
          /\ NeedsRefresh => refreshes < MaxRefreshes
          /\ \E cred \in _access_token :
               /\ credentials' = cred.credentials
               /\ token' = cred.token
               /\ expired' = cred.expired
               /\ refreshes' = cred.refreshes
               /\ loads' = cred.loads
               /\ IF cred.result = ErrorResult
                  THEN /\ outcomes' = Append(outcomes,
                                             AuthError(attempt_number))
                       /\ UNCHANGED <<http_request, _http_options, sent,
                                      peer_request>>
                  ELSE LET headers == AuthHeaders(http_request.headers[1],
                                                  cred.result)
                       IN /\ http_request' =
                               [http_request EXCEPT !.headers = <<headers>>]
                          /\ _http_options' =
                               IF http_request.shared
                               THEN [_http_options EXCEPT
                                       !.headers = <<headers>>]
                               ELSE _http_options
                          /\ peer_request' =
                               IF http_request.shared
                               THEN Seen(peer_request, <<headers>>)
                               ELSE peer_request
                          /\ sent' = Append(sent,
                                            [attempt |-> attempt_number,
                                             headers |-> <<headers>>,
                                             token |-> cred.token])
                          /\ \E outcome \in Exchange(attempt_number) :
                               outcomes' = Append(outcomes, outcome)
     ELSE /\ sent' = Append(sent, [attempt |-> attempt_number,
                                   headers |-> http_request.headers,
                                   token |-> NoResult])
          /\ \E outcome \in Exchange(attempt_number) :
               outcomes' = Append(outcomes, outcome)
          /\ UNCHANGED <<credentials, token, expired, refreshes, loads,
                         http_request, _http_options, peer_request>>
  /\ rpc' = "iter"
  /\ UNCHANGED <<retry_options, rmode, attempt_number, sleeps, returned>>
  /\ UNCHANGED <<sync_auth_lock, async_auth_lock, apc, apath, aresult,
                 refreshing, stale0, env_failed>>
  /\ UNCHANGED <<cpc, ctor_args, environ, ctor_error, vertexai, api_key,
                 project, location>>
  /\ UNCHANGED <<qkind, qpc, http_method, path, request_dict, http_options,
                 call_error, built_headers, peer_pc>>
  /\ UNCHANGED <<uploadVars, mergeVars, streamVars>>

\* The call is over: its caller has the response or the error, and the
\* client is free for the next call.
Return ==
  /\ \/ qpc \in {"failed", "done"}
     \/ qpc = "retrying" /\ rpc = "done"
  /\ qkind' = "none"
  /\ qpc' = "idle"
  /\ http_method' = "none"
  /\ path' = <<>>
  /\ request_dict' = <<>>
  /\ http_options' = <<>>
  /\ http_request' = NoRequest
  /\ call_error' = "none"
  /\ sent' = <<>>
  /\ built_headers' = <<>>
  /\ rmode' = "none"
  /\ rpc' = "idle"
  /\ attempt_number' = 0
  /\ outcomes' = <<>>
  /\ sleeps' = 0
  /\ returned' = NoOutcome
  /\ UNCHANGED <<retry_options, peer_pc, peer_request>>
  /\ UNCHANGED <<clientVars, authVars, uploadVars, mergeVars, streamVars>>

\* Time passes and the token the credential holds expires.
TokenExpires ==
  /\ credentials = "set"
  /\ token # 0
  /\ ~expired
  /\ refreshes < MaxRefreshes
  /\ expired' = TRUE
  /\ UNCHANGED <<credentials, token, sync_auth_lock, async_auth_lock, apc,
                 apath, aresult, refreshing, refreshes, loads, stale0,
                 env_failed>>
  /\ UNCHANGED notAuthVars

\* Per-call http_options of the second call: none, or an override.
PeerHttpOptions ==
  {<<>>, <<[NoOptions EXCEPT !.timeout = <<1000>>]>>}

\* Another thread calls request('post', ...) on the client while the first
\* call is in flight: its _build_request.
PeerCall ==
  /\ cpc = "ready"
  /\ peer_pc = "idle"
  /\ \E call_options \in PeerHttpOptions :
       LET built == _build_request("post", <<"x">>, <<>>, call_options)
       IN /\ built.error = "none"
          /\ peer_request' = built.request
          /\ _http_options' = built.self_http_options
          /\ http_request' = Seen(http_request,
                                  built.self_http_options.headers)
  /\ peer_pc' = "attempt"
  /\ UNCHANGED <<cpc, ctor_args, environ, ctor_error, vertexai, api_key,
                 project, location>>
  /\ UNCHANGED <<qkind, qpc, http_method, path, request_dict, http_options,
                 call_error, sent, built_headers>>
  /\ UNCHANGED <<retryVars, authVars, uploadVars, mergeVars, streamVars>>

\* The first attempt of the second call: _request_once on its request.
PeerAttempt ==
  /\ peer_pc = "attempt"
  /\ IF OAuthMode
     THEN /\ NotCredentials => loads < MaxRefreshes
          /\ NeedsRefresh => refreshes < MaxRefreshes
          /\ \E cred \in _access_token :
               /\ credentials' = cred.credentials
               /\ token' = cred.token
               /\ expired' = cred.expired
               /\ refreshes' = cred.refreshes
               /\ loads' = cred.loads
               /\ IF cred.result = ErrorResult
                  THEN UNCHANGED <<http_request, _http_options, peer_request>>
                  ELSE LET headers == AuthHeaders(peer_request.headers[1],
                                                  cred.result)
                       IN /\ peer_request' =
                               [peer_request EXCEPT !.headers = <<headers>>]
                          /\ _http_options' =
                               IF peer_request.shared
                               THEN [_http_options EXCEPT
                                       !.headers = <<headers>>]
                               ELSE _http_options
                          /\ http_request' =
                               IF peer_request.shared
                               THEN Seen(http_request, <<headers>>)
                               ELSE http_request
     ELSE UNCHANGED <<credentials, token, expired, refreshes, loads,
                      http_request, _http_options, peer_request>>
  /\ peer_pc' = "done"
  /\ UNCHANGED <<sync_auth_lock, async_auth_lock, apc, apath, aresult,
                 refreshing, stale0, env_failed>>
  /\ UNCHANGED <<cpc, ctor_args, environ, ctor_error, vertexai, api_key,
                 project, location>>
  /\ UNCHANGED <<qkind, qpc, http_method, path, request_dict, http_options,
                 call_error, sent, built_headers>>
  /\ UNCHANGED <<retryVars, uploadVars, mergeVars, streamVars>>

\* The endpoint the calls of a session go to.
SessionPath == <<"x">>

CallKinds ==
  {"request", "request_streamed", "async_request", "async_request_streamed"}
    \cup DownloadCalls

\* Any of the six calls, on one endpoint: a session of calls varies the
\* call and its per-call options.
EndpointCall ==
  \E kind \in CallKinds, call_options \in CallHttpOptions :
    StartCall(kind, IF kind \in DownloadCalls THEN "get" ELSE "post",
              SessionPath, <<>>, call_options)

\* The body fields a caller passes.
RequestDicts ==
  {<<>>,
   [key \in {<<"a">>} |-> 1],
   [key \in {<<"a">>, <<"_", "url">>} |-> 1],
   [key \in {<<"_", "url">>, <<"_", "query">>} |-> 1]}

\* extra_body as a caller configures it: not set, empty, plain keys, or a
\* key that starts with '_' among them.
ExtraBodies ==
  {<<>>, <<<<>>>>,
   <<[key \in {<<"a">>, <<"b">>} |-> 2]>>,
   <<[key \in {<<"b">>, <<"_", "debug">>} |-> 2]>>}

\* request(http_method, path, request_dict, http_options) with body fields,
\* and with extra_body in the per-call options or not.
BodyCall ==
  \E method \in HttpMethods, fields \in RequestDicts,
     extra_body \in ExtraBodies :
    \/ StartCall("request", method, SessionPath, fields,
                 <<[NoOptions EXCEPT !.extra_body = extra_body]>>)
    \/ /\ extra_body = <<>>
       /\ StartCall("request", method, SessionPath, fields, <<>>)

(***************************************************************************)
(* Response stream decoder (HttpResponse.segments / async_segments and the *)
(* streamed calls that iterate them).                                      *)
(*                                                                         *)
(* A JSON object is the sequence of its <<key, value>> pairs; its text is  *)
(* a string in the pieces "{", "}", ":", " ", the key and the value.       *)
(***************************************************************************)
\* The values 1..MaxJson of the key "a" tell the records apart.
JsonValues == {<<>>} \cup {<<<<"a", n>>>> : n \in 1..MaxJson}

\* The compact text of a JSON object, as a server writes it.
JsonText(value) ==
  IF value = <<>> THEN <<"{", "}">>
  ELSE <<"{", value[1][1], ":", ToString(value[1][2]), "}">>

\* json.dumps(value): the default separators put a space after the colon.
json_dumps(value) ==
  IF value = <<>> THEN <<"{", "}">>
  ELSE <<"{", value[1][1], ":", " ", ToString(value[1][2]), "}">>

\* Whether json.loads(text) raises: the text, without the white space
\* around it, is not the text of a JSON value.
Malformed(text) == \A value \in JsonValues : strip(text) # JsonText(value)

\* json.loads(text) for a text that is not malformed.
json_loads(text) ==
  CHOOSE value \in JsonValues : strip(text) = JsonText(value)

\* The line prefix of a streamed chunk.
DataPrefix == <<"data", ":", " ">>

\* A decoder that parses the chunk as it came.
PrefixKept(chunk) == chunk

\* Lines 266-267: chunk[len('data: '):] when the chunk starts with 'data: '.
StripPrefix(chunk) ==
  IF StartsWith(chunk, DataPrefix) THEN DropFirst(chunk, Len(DataPrefix))
  ELSE chunk

\* What one unit of the body source decodes to: nothing (the unit is
\* skipped), a record, or an error.
NoRecord == [kind |-> "skip", value |-> <<>>]

\* A decoder that drops a chunk it cannot parse.
DecodeSkippingMalformed(source, chunk) ==
  IF source = "list"
  THEN IF chunk = <<>> THEN [kind |-> "record", value |-> <<>>]
       ELSE IF Malformed(chunk) THEN NoRecord
       ELSE [kind |-> "record", value |-> json_loads(chunk)]
  ELSE IF chunk = <<>> THEN NoRecord
  ELSE IF Malformed(StripPrefix(chunk)) THEN NoRecord
  ELSE [kind |-> "record", value |-> json_loads(StripPrefix(chunk))]

\* The body of the loops of segments / async_segments for one chunk.
Decode(source, chunk) ==
  IF source = "list"
  THEN IF chunk = <<>> THEN [kind |-> "record", value |-> <<>>]
       ELSE IF Malformed(chunk) THEN [kind |-> "raise", value |-> <<>>]
       ELSE [kind |-> "record", value |-> json_loads(chunk)]
  ELSE IF chunk = <<>> THEN NoRecord
  ELSE IF Malformed(StripPrefix(chunk))
  THEN [kind |-> "raise", value |-> <<>>]
  ELSE [kind |-> "record", value |-> json_loads(StripPrefix(chunk))]

\* The body sources: a list of chunks, None, or a live response iterated
\* with iter_lines (httpx), aiter_lines (httpx) or content.iter_any (aiohttp).
SyncSources == {"list", "none", "iter_lines"}

AsyncSources == {"list", "none", "aiter_lines", "iter_any"}

\* The chunks a body source yields.
Chunks ==
  {<<>>, <<" ">>, <<"{", "a", ":">>, <<"data", ":", "{", "a", ":", "1", "}">>}
    \cup {JsonText(v) : v \in JsonValues \ {<<>>}}
    \cup {DataPrefix \o JsonText(v) : v \in JsonValues \ {<<>>}}

ChunkSequences == UNION {[1..n -> Chunks] : n \in 0..MaxChunks}

\* --- a response body on the wire, and how the two async backends hand it
\* --- to async_segments

\* The lines a server writes: an empty line, or a record with or without
\* the prefix.
BodyLines ==
  {<<>>} \cup {JsonText(v) : v \in JsonValues \ {<<>>}}
         \cup {DataPrefix \o JsonText(v) : v \in JsonValues \ {<<>>}}

RECURSIVE Flatten(_)
\* The text of the given pieces of text, one after the other.
Flatten(texts) ==
  IF texts = <<>> THEN <<>> ELSE Head(texts) \o Flatten(Tail(texts))

\* The bodies: up to MaxLines lines, each ended by a newline.
Bodies ==
  UNION {{Flatten([i \in 1..n |-> lines[i] \o <<"\n">>]) :
            lines \in [1..n -> BodyLines]} : n \in 0..MaxLines}

RECURSIVE SplitLines(_)
\* response_stream.aiter_lines() of the httpx response: the lines of the
\* body, without their newline.
SplitLines(body) ==
  IF body = <<>> THEN <<>>
  ELSE IF \E i \in 1..Len(body) : body[i] = "\n"
  THEN LET i == FirstIndex(body, {"\n"})
       IN <<SubSeq(body, 1, i - 1)>> \o SplitLines(DropFirst(body, i))
  ELSE <<body>>

\* response_stream.content.iter_any() of the aiohttp response: the body as
\* the network delivered it, cut after i and after j characters.
ReadAny(body, i, j) ==
  SelectSeq(<<SubSeq(body, 1, i), SubSeq(body, i + 1, j),
              SubSeq(body, j + 1, Len(body))>>,
            LAMBDA chunk : chunk # <<>>)

\* Every way the network may deliver the body in at most three reads.
Deliveries(body) ==
  {ReadAny(body, cut[1], cut[2]) :
     cut \in {c \in (0..Len(body)) \X (0..Len(body)) : c[1] <= c[2]}}

\* What the source still has to yield.
Pending == SubSeq(response_stream, chunk_index + 1, Len(response_stream))

\* Number of chunks the generator consumes when it is resumed: up to and
\* including the first chunk that is not skipped, or all of them.
Consumed(source, chunks) ==
  IF \E i \in 1..Len(chunks) : Decode(source, chunks[i]).kind # "skip"
  THEN CHOOSE i \in 1..Len(chunks) :
         /\ Decode(source, chunks[i]).kind # "skip"
         /\ \A j \in 1..(i - 1) : Decode(source, chunks[j]).kind = "skip"
  ELSE Len(chunks)

\* What _request_once / _async_request_once left open when it returned a
\* response with the given body source: nothing for a body read in full,
\* the streamed response of httpx, or the response of aiohttp and the
\* ClientSession created for it.
Opened(source) ==
  CASE source \in {"iter_lines", "aiter_lines"} -> {"response"}
    [] source = "iter_any" -> {"response", "session"}
    [] OTHER -> {}

\* What the end of the body releases: the response, whose connection the
\* backend takes back once the body is read to its end.
Drained == {"response"}

\* No stream is being decoded.
StreamIdle ==
  /\ stream_source = "none"
  /\ response_stream = <<>>
  /\ scall = "none"
  /\ spc = "idle"
  /\ chunk_index = 0
  /\ yielded = <<>>
  /\ unreleased = {}

\* The consumer obtains the iterator of a decode call on the response.
StartStream(call) ==
  /\ spc = "idle"
  /\ scall' = call
  /\ spc' = "open"
  /\ UNCHANGED <<stream_source, response_stream, chunk_index, yielded,
                 unreleased>>
  /\ UNCHANGED <<retryVars, authVars, uploadVars, mergeVars, clientVars,
                 callVars>>

\* HttpResponse.segments()
segments ==
  /\ stream_source \in SyncSources
  /\ StartStream("segments")

\* HttpResponse.async_segments()
async_segments ==
  /\ stream_source \in AsyncSources
  /\ StartStream("async_segments")

\* The generator request_streamed returns, once the response is there.
request_streamed_generator ==
  /\ stream_source \in SyncSources \ {"list"}
  /\ StartStream("request_streamed")

\* The generator async_request_streamed returns.
async_request_streamed_generator ==
  /\ stream_source \in AsyncSources \ {"list"}
  /\ StartStream("async_request_streamed")

\* What the consumer receives for a decoded record: the record itself from
\* segments, SdkHttpResponse(body=json.dumps(chunk)) from the streamed calls.
Delivered(call, value) ==
  IF call \in {"segments", "async_segments"}
  THEN [kind |-> "record", value |-> value, body |-> <<>>]
  ELSE [kind |-> "response", value |-> value, body |-> json_dumps(value)]

\* The consumer asks for the next item: the generator runs to its next
\* yield, to the error it raises, or to its end.
NextSegment ==
  /\ spc = "open"
  /\ LET source == IF stream_source = "none" THEN "none" ELSE stream_source
         n == Consumed(source, Pending)
         last == IF n = 0 THEN NoRecord ELSE Decode(source, Pending[n])
     IN /\ chunk_index' = chunk_index + n
        /\ IF last.kind = "record"
           THEN /\ yielded' = Append(yielded, Delivered(scall, last.value))
                /\ spc' = "open"
                /\ UNCHANGED unreleased
           ELSE IF last.kind = "raise"
           THEN /\ yielded' = yielded
                /\ spc' = "raised"
                /\ UNCHANGED unreleased
           ELSE /\ yielded' = yielded
                /\ spc' = "ended"
                /\ unreleased' = unreleased \ Drained
  /\ UNCHANGED <<stream_source, response_stream, scall>>
  /\ UNCHANGED <<retryVars, authVars, uploadVars, mergeVars, clientVars,
                 callVars>>

\* The consumer stops before the end: it closes the generator, or drops it.
\* The generator of request_streamed sends the request when it is first
\* resumed, so it has a response only once it is suspended at a yield; the
\* other generators are handed over with the response there.
GeneratorExit ==
  /\ spc = "open"
  /\ scall = "request_streamed" => yielded # <<>>
  /\ spc' = "closed"
  /\ UNCHANGED <<stream_source, response_stream, scall, chunk_index, yielded,
                 unreleased>>
  /\ UNCHANGED <<retryVars, authVars, uploadVars, mergeVars, clientVars,
                 callVars>>

(***************************************************************************)
(* Specification of the retry orchestrator.                                *)
(***************************************************************************)
\* The retry loop before any call.
RetryIdle ==
  /\ rmode = "none"
  /\ rpc = "idle"
  /\ attempt_number = 0
  /\ outcomes = <<>>
  /\ sleeps = 0
  /\ returned = NoOutcome

InitRetry ==
  /\ retry_options \in {NoRetryOptions} \cup HttpRetryOptions
  /\ RetryIdle
  /\ AuthIdle
  /\ UploadIdle
  /\ MergeIdle
  /\ ClientNew
  /\ CallIdle
  /\ StreamIdle

NextRetry ==
  \/ _request
  \/ _async_request
  \/ DoAttempt
  \/ RetryIter
  \/ DoSleep

SpecRetry == InitRetry /\ [][NextRetry]_vars

(***************************************************************************)
(* Specification of the credential manager.                                *)
(***************************************************************************)
\* A client after construction: no credential yet, or a credential whose
\* token is absent, expired or valid.
InitAuth ==
  /\ credentials \in {"none", "set"}
  /\ token \in {0, Token(0)}
  /\ expired \in BOOLEAN
  /\ credentials = "none" => (token = 0 /\ ~expired)
  /\ token = 0 => ~expired
  /\ stale0 = NeedsRefresh
  /\ sync_auth_lock = 0
  /\ async_auth_lock = 0
  /\ apc = [c \in Callers |-> "idle"]
  /\ apath = [c \in Callers |-> "none"]
  /\ aresult = [c \in Callers |-> NoResult]
  /\ refreshing = {}
  /\ refreshes = 0
  /\ loads = 0
  /\ env_failed = FALSE
  /\ retry_options = NoRetryOptions
  /\ RetryIdle
  /\ UploadIdle
  /\ MergeIdle
  /\ ClientNew
  /\ CallIdle
  /\ StreamIdle

NextAuth ==
  \E c \in Callers :
    \/ access_token_call(c)
    \/ access_token_acquire(c)
    \/ access_token_load(c)
    \/ access_token_check(c)
    \/ access_token_refresh(c)
    \/ access_token_refreshed(c)
    \/ access_token_return(c)
    \/ async_access_token_call(c)
    \/ async_access_token_acquire_load(c)
    \/ async_access_token_load(c)
    \/ async_access_token_check(c)
    \/ async_access_token_acquire_refresh(c)
    \/ async_access_token_refreshed(c)
    \/ async_access_token_return(c)

SpecAuth == InitAuth /\ [][NextAuth]_vars

(***************************************************************************)
(* Claims about the credential manager (checked under SpecAuth).           *)
(***************************************************************************)
Started == {c \in Callers : apath[c] # "none"}

\* Every caller that has arrived uses the same call path.
SamePath == \A c, d \in Started : apath[c] = apath[d]

AllDone == \A c \in Callers : apc[c] = "done"

\* C5 (single flight): when the callers, all on one call path, find the
\* token absent or expired, and loading and refreshing the credential
\* succeed, at most one refresh is ever made, and once all NCallers callers
\* have returned exactly one refresh was made and each caller holds the token
\* that refresh stored.
C5_SingleFlight ==
  (SamePath /\ stale0 /\ ~env_failed)
  => /\ refreshes <= 1
     /\ AllDone => /\ refreshes = 1
                   /\ \A c \in Callers : aresult[c] = Token(1)

C5_Witness ==
  /\ AllDone
  /\ \A c \in Callers : apath[c] = "async"
  /\ stale0
  /\ loads = 0
  /\ ~env_failed
  /\ refreshes = 1
  /\ \A c \in Callers : aresult[c] = Token(1)

\* C6, as the claim states it: never two refreshes of the credential in
\* progress together, whichever paths the callers use, mixed use included.
C6_NoConcurrentRefresh == Cardinality(refreshing) <= 1

\* C6, amended: while all callers that have arrived use one call path (all
\* blocking, or all suspend-capable), at most one refresh of the credential
\* is in progress.
C6_NoConcurrentRefreshOnOnePath == SamePath => Cardinality(refreshing) <= 1

\* One caller is refreshing while another on the same path waits for the lock.
C6_Witness ==
  /\ SamePath
  /\ \E c, d \in Callers :
       /\ c # d
       /\ refreshing = {c}
       /\ apc[c] = "s_refreshing"
       /\ apc[d] = "s_acquire"

(***************************************************************************)
(* Specification of the resumable upload.                                  *)
(***************************************************************************)
\* An upload call with any declared size and any source content.
InitUpload ==
  /\ umode = "none"
  /\ upc = "idle"
  /\ upload_size \in 0..MaxBytes
  /\ file_len \in 0..MaxBytes
  /\ file_pos = 0
  /\ file_chunk = FileRead(0)
  /\ offset = 0
  /\ chunk_size = 0
  /\ upload_command = "none"
  /\ retry_count = 0
  /\ last_status = "unset"
  /\ posts = <<>>
  /\ usleeps = 0
  /\ uresult = "none"
  /\ retry_options = NoRetryOptions
  /\ RetryIdle
  /\ AuthIdle
  /\ MergeIdle
  /\ ClientNew
  /\ CallIdle
  /\ StreamIdle

NextUpload ==
  \/ _upload_fd
  \/ _async_upload_fd_aiohttp
  \/ _async_upload_fd_httpx
  \/ ReadChunk
  \/ PostChunk
  \/ SleepReturns
  \/ Advance
  \/ Finish

SpecUpload == InitUpload /\ [][NextUpload]_vars

(***************************************************************************)
(* Claims about the resumable upload (checked under SpecUpload).           *)
(***************************************************************************)
\* C7 (success only in final): a finished upload call, sync or async, has
\* succeeded only if the status of the last response it received is 'final',
\* and has failed whenever that status is anything else (absent after the
\* retries, or a value other than 'final').
C7_SuccessOnlyIfFinal ==
  upc = "done"
  => /\ uresult = "ok" => last_status = "final"
     /\ last_status # "final"
        => uresult \in {"protocol_violation", "not_finalized"}

C7_Witness ==
  /\ upc = "done"
  /\ umode = "aiohttp"
  /\ uresult = "ok"
  /\ Len(posts) = 2
  /\ posts[1].status = "active"
  /\ posts[2].status = "final"

\* C8 (size used up while active): a POST answered 'active' whose offset plus
\* chunk size reaches upload_size is the last POST of the call, and the call
\* then fails with the protocol violation.
C8_ActiveAtFullSizeFails ==
  \A i \in 1..Len(posts) :
    (/\ posts[i].status = "active"
     /\ posts[i].offset + posts[i].length >= upload_size)
    => /\ i = Len(posts)
       /\ \/ upc = "advance"
          \/ upc = "done" /\ uresult = "protocol_violation"

\* The server answers 'active' to every chunk of a source of upload_size bytes.
C8_Witness ==
  /\ upc = "done"
  /\ uresult = "protocol_violation"
  /\ file_len = upload_size
  /\ Len(posts) = 2
  /\ \A i \in 1..Len(posts) : posts[i].status = "active"

(***************************************************************************)
(* Specification of the options merger.                                    *)
(***************************************************************************)
InitMerge ==
  /\ ClientNew
  /\ CallIdle
  /\ StreamIdle
  /\ base_options \in BaseOptions
  /\ override_options \in PatchOptions
  /\ mpc = "idle"
  /\ copy_option = NoOptions
  /\ retry_options = NoRetryOptions
  /\ RetryIdle
  /\ AuthIdle
  /\ UploadIdle

NextMerge == PatchHttpOptions

SpecMerge == InitMerge /\ [][NextMerge]_vars

(***************************************************************************)
(* Claims about the options merger (checked under SpecMerge).              *)
(***************************************************************************)
base_headers == HeadersOrEmpty(base_options.headers)

override_headers == HeadersOrEmpty(override_options.headers)

merged_headers == copy_option.headers[1]

\* The value the claim gives key k: the override's when the override has the
\* key, the base's otherwise.
OverrideWins(k) ==
  IF k \in DOMAIN override_headers THEN override_headers[k]
  ELSE base_headers[k]

\* C9, as the claim states it: the merged map holds every key of either map,
\* a key of the override with the override's value and a key of the base
\* alone with the base's value.
C9_OverrideWinsEveryKey ==
  mpc = "done"
  => \A k \in DOMAIN base_headers \cup DOMAIN override_headers :
       /\ k \in DOMAIN merged_headers
       /\ merged_headers[k] = OverrideWins(k)

\* C9, amended: the merged map holds every key of either map; every key
\* other than user-agent and x-goog-api-client carries the override's value
\* when the override has it and the base's value otherwise; user-agent and
\* x-goog-api-client are always in the merged map, with the override-wins
\* value when it already contains the library version label, that value with
\* the label put in front when it does not, and the label alone when neither
\* map has the key.
C9_OverrideWinsPerKey ==
  mpc = "done"
  => /\ DOMAIN merged_headers =
          DOMAIN base_headers \cup DOMAIN override_headers \cup TelemetryKeys
     /\ \A k \in (DOMAIN base_headers \cup DOMAIN override_headers)
                   \ TelemetryKeys :
          merged_headers[k] = OverrideWins(k)
     /\ \A k \in TelemetryKeys :
          merged_headers[k] =
            IF k \notin DOMAIN base_headers \cup DOMAIN override_headers
            THEN <<version_header_value>>
            ELSE IF Contains(OverrideWins(k), version_header_value)
            THEN OverrideWins(k)
            ELSE <<version_header_value>> \o OverrideWins(k)

\* {a:1, b:2} merged with {b:3, c:4}.
C9_Witness ==
  /\ mpc = "done"
  /\ base_headers = [k \in {"a", "b"} |-> BaseHeaderValue[k]]
  /\ override_headers = [k \in {"b", "c"} |-> PatchHeaderValue[k]]
  /\ merged_headers["a"] = <<"1">>
  /\ merged_headers["b"] = <<"3">>
  /\ merged_headers["c"] = <<"4">>

\* C10 (per-field override): every field other than headers holds, in the
\* merged options, the override's value when the override sets the field (to
\* anything but None) and the base's value otherwise, field by field.
C10_PerFieldOverride ==
  mpc = "done"
  => \A key \in HttpOptionsKeys :
       copy_option[key] = IF override_options[key] # <<>>
                          THEN override_options[key]
                          ELSE base_options[key]

\* The override sets the timeout alone; the other fields keep the base's values.
C10_Witness ==
  /\ mpc = "done"
  /\ override_options.timeout = <<0>>
  /\ override_options.base_url = <<>>
  /\ override_options.retry_options = <<>>
  /\ base_options.timeout = <<1000>>
  /\ copy_option.timeout = <<0>>
  /\ copy_option.base_url = <<"https://base/">>
  /\ copy_option.retry_options = <<"base_policy">>

(***************************************************************************)
(* Claims about the retry orchestrator (checked under SpecRetry).          *)
(***************************************************************************)
executions == Len(outcomes)

\* Every executed attempt returned a result whose status_code is in the
\* retriable set the policy names.
EveryResultRetriable ==
  \A i \in 1..Len(outcomes) :
    /\ outcomes[i].kind = "result"
    /\ outcomes[i].status_code \in retry_options.http_status_codes

\* C1 (retry bound): under a policy with max_attempts = n >= 1, when every
\* result of the wrapped request carries a status code of the policy's
\* retriable set, the request is never executed more than n times, and when
\* the call ends it has been executed exactly n times and returns a result;
\* sync and async loop alike.
C1_RetryBound ==
  (/\ ~retry_options.is_none
   /\ retry_options.attempts >= 1
   /\ EveryResultRetriable)
  => /\ executions <= retry_options.attempts
     /\ rpc = "done" => /\ executions = retry_options.attempts
                        /\ returned.kind = "result"

C1_Witness ==
  /\ rpc = "done"
  /\ rmode = "async"
  /\ ~retry_options.is_none
  /\ retry_options.attempts = 3
  /\ EveryResultRetriable
  /\ executions = 3

\* C2 (never retry): with no retry policy, or with a policy of
\* max_attempts = 1, the wrapped request is executed at most once, no sleep
\* happens, and the call ends after exactly one execution, whether that
\* execution returned or raised.
C2_NeverRetry ==
  (retry_options.is_none \/ retry_options.attempts = 1)
  => /\ executions <= 1
     /\ sleeps = 0
     /\ rpc = "done" => executions = 1

C2_Witness ==
  /\ rpc = "done"
  /\ retry_options.is_none
  /\ executions = 1
  /\ returned = APIError(500, 1)

\* C3, as the claim states it: a response with a non-2xx status of the active
\* retriable set is sent again while attempts remain, and a response with a
\* status outside the set ends the call after one send with its error.
C3_RetriableStatusResent ==
  (rpc = "done" /\ ~retry_options.is_none)
  => /\ (/\ LastOutcome.server \in ServerStatusCodes \ (200..299)
         /\ LastOutcome.server \in RetryKwargs.codes)
        => executions >= RetryKwargs.stop
     /\ (/\ outcomes[1].server \in ServerStatusCodes \ (200..299)
         /\ outcomes[1].server \notin RetryKwargs.codes)
        => /\ executions = 1
           /\ returned = APIError(outcomes[1].server, 1)

\* C4 (last outcome surfaced): when the loop has stopped, the caller holds
\* the outcome of the last executed attempt itself (its result, or the error
\* it raised), not the retry-exhaustion wrapper and not an earlier attempt's
\* outcome.
C4_LastOutcomeSurfaced ==
  rpc = "done"
  => /\ returned = outcomes[executions]
     /\ returned.attempt = executions
     /\ returned # RetryError
     /\ returned.kind \in {"result", "exception"}

C4_Witness ==
  /\ rpc = "done"
  /\ executions = 3
  /\ sleeps = 2
  /\ returned.kind = "result"
  /\ returned.attempt = 3

(***************************************************************************)
(* Specification of the construction of the client.                        *)
(***************************************************************************)
InitInit ==
  /\ ClientNew
  /\ retry_options = NoRetryOptions
  /\ RetryIdle
  /\ AuthIdle
  /\ UploadIdle
  /\ MergeIdle
  /\ CallIdle
  /\ StreamIdle

NextInit == __init__

SpecInit == InitInit /\ [][NextInit]_vars

(***************************************************************************)
(* Specification of the calls of a constructed client.                     *)
(***************************************************************************)
\* An API key of the Gemini Developer API, and ephemeral tokens.
ApiKeys ==
  {<<"key">>, <<"auth_tokens", "/", "t">>, <<" ", "auth_tokens", "/", "t">>}

\* The clients the calls are made on: Gemini Developer API with a key or an
\* ephemeral token, Vertex AI with project and location, Vertex AI with a key.
RequestCtorArgs ==
  {[NoArgs EXCEPT !.api_key = <<k>>, !.http_options = o] :
     k \in ApiKeys, o \in CtorHttpOptions}
  \cup
  {[NoArgs EXCEPT !.vertexai = <<TRUE>>, !.project = <<<<"proj">>>>,
                  !.location = <<<<"us-central1">>>>, !.http_options = o] :
     o \in CtorHttpOptions}
  \cup
  {[NoArgs EXCEPT !.vertexai = <<TRUE>>, !.api_key = <<<<"key">>>>,
                  !.http_options = o] : o \in CtorHttpOptions}

\* The credential of the client is resolved and valid, or not resolved yet.
InitRequest ==
  /\ \E args \in RequestCtorArgs : Constructed(args, NoEnvironment)
  /\ cpc = "ready"
  /\ token = 0
  /\ expired = FALSE
  /\ sync_auth_lock = 0
  /\ async_auth_lock = 0
  /\ apc = [c \in Callers |-> "idle"]
  /\ apath = [c \in Callers |-> "none"]
  /\ aresult = [c \in Callers |-> NoResult]
  /\ refreshing = {}
  /\ refreshes = 0
  /\ stale0 = TRUE
  /\ env_failed = FALSE
  /\ RetryIdle
  /\ UploadIdle
  /\ MergeIdle
  /\ CallIdle
  /\ StreamIdle

NextRequest ==
  \/ request
  \/ request_streamed
  \/ async_request
  \/ async_request_streamed
  \/ download_file
  \/ async_download_file
  \/ DownloadExchange
  \/ DoAttempt
  \/ RetryIter
  \/ DoSleep

SpecRequest == InitRequest /\ [][NextRequest]_vars

(***************************************************************************)
(* Specification of the response stream decoder.                           *)
(***************************************************************************)
InitStream ==
  /\ stream_source \in SyncSources \cup AsyncSources
  /\ response_stream \in ChunkSequences
  /\ stream_source = "none" => response_stream = <<>>
  /\ scall = "none"
  /\ spc = "idle"
  /\ chunk_index = 0
  /\ yielded = <<>>
  /\ unreleased = Opened(stream_source)
  /\ retry_options = NoRetryOptions
  /\ RetryIdle
  /\ AuthIdle
  /\ UploadIdle
  /\ MergeIdle
  /\ ClientNew
  /\ CallIdle

NextStream ==
  \/ segments
  \/ async_segments
  \/ request_streamed_generator
  \/ async_request_streamed_generator
  \/ NextSegment

SpecStream == InitStream /\ [][NextStream]_vars

(***************************************************************************)
(* Claims about the request builder (checked under SpecRequest).           *)
(***************************************************************************)
\* A call has been made and _build_request returned a request for it.
Built == qkind # "none" /\ call_error = "none"

\* The configuration in effect for the call in hand.
EffectiveOptions ==
  IF http_options # <<>> THEN _patch_http_options(_http_options,
                                                  http_options[1])
  ELSE _http_options

\* The two strings _build_request handed to _join_url_path.
JoinedBase == EffectiveOptions.base_url[1]

JoinedPath ==
  VersionedPath(EffectiveOptions.api_version, PrefixedPath(http_method, path))

NoDoubleSlash(s) == \A i \in 1..(Len(s) - 1) : ~(s[i] = "/" /\ s[i + 1] = "/")

\* The pieces of a string between its slashes, in order.
Segments(s) == SelectSeq(s, LAMBDA piece : piece # "/")

\* s without one trailing slash, and s without one leading slash.
WithoutTrailingSlash(s) == IF EndsWith(s, <<"/">>) THEN DropLast(s) ELSE s

WithoutLeadingSlash(s) == IF StartsWith(s, <<"/">>) THEN DropFirst(s, 1) ELSE s

\* C11: joining a base URL (scheme, host and path) with or without one
\* trailing slash to a path with or without one leading slash gives the same
\* URL in all four cases: the base, one slash, the path.  Checked on the
\* base URL and the versioned path of every built request, and the URL of
\* the request is that one.
C11_SlashPlacementIrrelevant ==
  LET b0 == WithoutTrailingSlash(JoinedBase)
      p0 == WithoutLeadingSlash(JoinedPath)
  IN (/\ Built
      /\ ~EndsWith(b0, <<"/">>)
      /\ ~StartsWith(p0, <<"/">>))
     => /\ \A b \in {b0, b0 \o <<"/">>} :
             \A p \in {p0, <<"/">> \o p0} :
               _join_url_path(b, p) = b0 \o <<"/">> \o p0
        /\ http_request.url = b0 \o <<"/">> \o p0

\* A request built from a base URL with a trailing slash and a versioned
\* path with a leading slash: one slash is left between them.
C11_Witness ==
  /\ Built
  /\ EndsWith(JoinedBase, <<"/">>)
  /\ StartsWith(JoinedPath, <<"/">>)
  /\ http_request.url = <<"https", ":", "/", "/", "h", "/", "a", "/", "x">>

\* C12: the URL of every built request is base_url, api_version and path
\* joined by single slashes: for a base URL and a path that have slashes only
\* between their segments and at their ends, the path part of the URL has no
\* double slash and holds the segments of base, version and path, in order.
C12_SingleSlashUrl ==
  (/\ Built
   /\ NoDoubleSlash(urlparse(JoinedBase).path)
   /\ NoDoubleSlash(path)
   /\ Segments(path) # <<>>)
  => LET url_path == urlparse(http_request.url).path
         version == IF EffectiveOptions.api_version = <<>> THEN <<>>
                    ELSE EffectiveOptions.api_version[1]
     IN /\ NoDoubleSlash(url_path)
        /\ Segments(url_path) = Segments(urlparse(JoinedBase).path)
                                  \o Segments(version)
                                  \o Segments(PrefixedPath(http_method, path))

(***************************************************************************)
(* Claims about the stream decoder (checked under SpecStream).             *)
(***************************************************************************)
\* The live body sources: the response is iterated as it arrives.
LiveSources == {"iter_lines", "aiter_lines", "iter_any"}

\* A line that carries a record: the text of a JSON object, with or without
\* "data: " in front of it.
CarriesRecord(line, value) ==
  line = JsonText(value) \/ line = DataPrefix \o JsonText(value)

WellFormedLine(line) ==
  line = <<>> \/ \E value \in JsonValues : CarriesRecord(line, value)

RecordOf(line) == CHOOSE value \in JsonValues : CarriesRecord(line, value)

\* The chunks taken from the source so far, and the non-empty ones of them.
Taken == SubSeq(response_stream, 1, chunk_index)

NonEmpty(chunks) == SelectSeq(chunks, LAMBDA chunk : chunk # <<>>)

MalformedAt(i) ==
  /\ response_stream[i] # <<>>
  /\ Malformed(IF stream_source = "list" THEN response_stream[i]
               ELSE StripPrefix(response_stream[i]))

\* The chunks that yield a record: every chunk of a list, every non-empty
\* chunk of a live body.
Yielding(chunks) ==
  IF stream_source = "list" THEN chunks ELSE NonEmpty(chunks)

\* C14: a malformed chunk fails the record sequence at that chunk.  Once the
\* first malformed chunk of the body is taken, the consumer has the error,
\* has received one record for each yielding chunk before it, and no chunk
\* after it is ever taken.
C14_FailsAtMalformedChunk ==
  \A k \in 1..Len(response_stream) :
    (/\ scall # "none"
     /\ MalformedAt(k)
     /\ \A j \in 1..(k - 1) : ~MalformedAt(j))
    => /\ chunk_index <= k
       /\ spc # "ended"
       /\ chunk_index = k
            => /\ spc = "raised"
               /\ Len(yielded) = Len(Yielding(SubSeq(response_stream, 1,
                                                     k - 1)))

\* request_streamed on a body whose second line is cut short: the consumer
\* received the first record, then the error; the third line was not taken.
C14_Witness ==
  /\ scall = "request_streamed"
  /\ response_stream = <<DataPrefix \o JsonText(<<<<"a", 1>>>>),
                         <<"{", "a", ":">>,
                         DataPrefix \o JsonText(<<<<"a", 2>>>>)>>
  /\ spc = "raised"
  /\ chunk_index = 2
  /\ yielded = <<Delivered("request_streamed", <<<<"a", 1>>>>)>>

(***************************************************************************)
(* Claims about the construction of the client (checked under SpecInit).   *)
(***************************************************************************)
\* C15: constructing a client with an explicit API key together with an
\* explicit project or location, or together with explicit credentials,
\* fails at construction: before any credential discovery, before any
\* network call, and with no configuration a call could use.
C15_MutuallyExclusiveInputs ==
  (/\ cpc # "new"
   /\ Truthy(ctor_args.api_key)
   /\ \/ Truthy(ctor_args.project)
      \/ Truthy(ctor_args.location)
      \/ ctor_args.credentials # <<>>)
  => /\ cpc = "failed"
     /\ ctor_error \in {"project_location_and_api_key",
                        "credentials_and_api_key"}
     /\ loads = 0
     /\ outcomes = <<>>
     /\ _http_options = NoOptions
     /\ api_key = <<>>
     /\ credentials = "none"

\* A construction with an API key and credentials, in an environment that
\* selects Vertex AI and offers a project: it failed on the two arguments.
C15_Witness ==
  /\ cpc = "failed"
  /\ ctor_args.api_key = <<<<"key">>>>
  /\ ctor_args.credentials # <<>>
  /\ ctor_args.project = <<>>
  /\ ctor_args.location = <<>>
  /\ environ.GOOGLE_GENAI_USE_VERTEXAI
  /\ ctor_error = "credentials_and_api_key"
  /\ loads = 0

\* C18: base URL selection at construction, when the caller's http_options
\* give no base URL and no version.  Without Vertex AI the base URL is the
\* fixed public endpoint and the version v1beta; with Vertex AI the version
\* is v1beta1 and the base URL is https://{location}-aiplatform.googleapis.com/
\* unless the location is 'global' or an API key is active, in which case it
\* is https://aiplatform.googleapis.com/.
C18_BaseUrlSelection ==
  (/\ cpc = "ready"
   /\ \/ ctor_args.http_options = <<>>
      \/ /\ ctor_args.http_options[1].base_url = <<>>
         /\ ctor_args.http_options[1].api_version = <<>>)
  => IF vertexai = <<TRUE>>
     THEN /\ _http_options.api_version = <<<<"v1beta1">>>>
          /\ _http_options.base_url =
               IF Truthy(api_key) \/ location = <<<<"global">>>>
               THEN <<<<"https", ":", "/", "/", "aiplatform.googleapis.com",
                        "/">>>>
               ELSE <<<<"https", ":", "/", "/">> \o location[1]
                       \o <<"-aiplatform.googleapis.com", "/">>>>
     ELSE /\ _http_options.api_version = <<<<"v1beta">>>>
          /\ _http_options.base_url =
               <<<<"https", ":", "/", "/",
                   "generativelanguage.googleapis.com", "/">>>>

\* A Vertex AI client for project and location us-central1, without a key:
\* its base URL is the regional one.
C18_Witness ==
  /\ cpc = "ready"
  /\ vertexai = <<TRUE>>
  /\ ~Truthy(api_key)
  /\ location = <<<<"us-central1">>>>
  /\ ctor_args.http_options = <<>>
  /\ _http_options.base_url =
       <<<<"https", ":", "/", "/", "us-central1",
           "-aiplatform.googleapis.com", "/">>>>
  /\ _http_options.api_version = <<<<"v1beta1">>>>

(***************************************************************************)
(* More claims about the credential manager (checked under SpecAuth).      *)
(***************************************************************************)
\* C16: the access-token operation, blocking or suspend-capable, never
\* returns an absent or empty token.  A caller that is done either failed or
\* holds a non-empty token of the resolved credential; a caller that is done
\* while no credential is resolved failed; and a caller that leaves the
\* operation while the credential has no token (also right after a refresh)
\* fails.
C16_TokenOrError ==
  /\ [](\A c \in Callers :
         apc[c] = "done"
         => /\ aresult[c] # NoResult
            /\ aresult[c] # ErrorResult
                 => /\ credentials = "set"
                    /\ aresult[c] \in {Token(r) : r \in 0..refreshes}
            /\ credentials = "none" => aresult[c] = ErrorResult)
  /\ [][\A c \in Callers :
          (apc[c] # "done" /\ apc'[c] = "done" /\ token' = 0)
          => aresult'[c] = ErrorResult]_vars

\* A caller on each path is done: one with the error, after a refresh that
\* left the credential without a token, one with a token.
C16_Witness ==
  \E c, d \in Callers :
    /\ apc[c] = "done"
    /\ apc[d] = "done"
    /\ apath[c] = "sync"
    /\ apath[d] = "async"
    /\ refreshes >= 1
    /\ credentials = "set"
    /\ {aresult[c], aresult[d]} = {ErrorResult, Token(1)}

(***************************************************************************)
(* More claims about the calls (checked under SpecRequest).                *)
(***************************************************************************)
\* C17, as the claim states it: when the client's API key has the prefix
\* 'auth_tokens/', every request, streamed request or download call, in
\* either execution model, fails with the ephemeral-token error and sends
\* nothing.
C17_EphemeralKeyError ==
  (IsEphemeralKey(api_key) /\ qkind # "none")
  => /\ qpc = "failed"
     /\ call_error = "EphemeralTokenAPIKeyError"
     /\ outcomes = <<>>
     /\ rpc = "idle"

\* C17, amended: with such a key every one of these calls fails before
\* anything is sent; the error is the ephemeral-token error when the
\* configuration in effect for the call has a base URL, and the missing
\* base URL error when it has none.
C17_EphemeralKeyNeverSends ==
  (IsEphemeralKey(api_key) /\ qkind # "none")
  => /\ qpc = "failed"
     /\ call_error = IF Truthy(EffectiveOptions.base_url)
                     THEN "EphemeralTokenAPIKeyError"
                     ELSE "Base URL must be set."
     /\ outcomes = <<>>
     /\ rpc = "idle"
     /\ http_request = NoRequest

\* A download on the suspend-capable path by a client whose key, given with
\* a leading blank, is an ephemeral token: rejected, nothing sent.
C17_Witness ==
  /\ ctor_args.api_key = <<<<" ", "auth_tokens", "/", "t">>>>
  /\ api_key = <<<<"auth_tokens", "/", "t">>>>
  /\ qkind = "async_download_file"
  /\ qpc = "failed"
  /\ call_error = "EphemeralTokenAPIKeyError"
  /\ outcomes = <<>>

\* The retry policy of the per-call override.
CallRetryOptions ==
  IF http_options = <<>> \/ http_options[1].retry_options = <<>>
  THEN NoRetryOptions
  ELSE http_options[1].retry_options[1]

\* C19: when a call supplies a retry policy in its per-call override, that
\* policy governs the retry loop of the call.  Once the loop of such a call
\* is over, the request was executed at most as often as that policy
\* allows, every execution but the last had an outcome that policy retries,
\* and the loop stopped early only on an outcome that policy does not retry.
C19_PerCallPolicyGoverns ==
  (/\ qpc = "retrying"
   /\ rpc = "done"
   /\ ~CallRetryOptions.is_none)
  => LET args == _retry_args(CallRetryOptions)
     IN /\ executions <= args.stop
        /\ \A i \in 1..(executions - 1) : ShouldRetry(args, outcomes[i])
        /\ executions < args.stop => ~ShouldRetry(args, LastOutcome)

(***************************************************************************)
(* More claims about the resumable upload (checked under SpecUpload).      *)
(***************************************************************************)
\* C20: in every upload call the X-Goog-Upload-Offset of a chunk POST is
\* the number of bytes of all chunks sent before it: 0 for the first POST,
\* and for every later POST the offset of the POST before it, plus the bytes
\* of that POST when it was answered with a status (the chunk was taken),
\* plus nothing when it was not (the same chunk is sent again).  The
\* offsets never decrease over the call.
C20_OffsetIsBytesSent ==
  /\ \A i \in 1..Len(posts) :
       posts[i].offset =
         IF i = 1 THEN 0
         ELSE posts[i - 1].offset
                + (IF HasStatus(posts[i - 1].status) THEN posts[i - 1].length
                   ELSE 0)
  /\ \A i, j \in 1..Len(posts) : i <= j => posts[i].offset <= posts[j].offset
  /\ Len(posts) > 0 => offset >= posts[Len(posts)].offset

\* A source of CHUNK_SIZE + 1 bytes uploaded in two POSTs, at offsets 0 and
\* CHUNK_SIZE, and the call returned.
C20_Witness ==
  /\ upload_size = CHUNK_SIZE + 1
  /\ file_len = CHUNK_SIZE + 1
  /\ uresult = "ok"
  /\ Len(posts) = 2
  /\ posts[1].offset = 0
  /\ posts[1].length = CHUNK_SIZE
  /\ posts[2].offset = CHUNK_SIZE
  /\ posts[2].length = 1

(***************************************************************************)
(* Specification of a session: call after call on one client, while the    *)
(* token of its credential expires and is refreshed.                       *)
(***************************************************************************)
\* The http_options of the clients of a session: none, or a timeout and a
\* retry policy.
SessionHttpOptions ==
  {<<>>,
   <<[NoOptions EXCEPT !.retry_options = <<PolicyOf(MaxAttempts, {200})>>,
                       !.timeout = <<2500>>]>>}

\* The clients of a session: Gemini Developer API with a key, Vertex AI
\* with project and location (the credential is discovered or passed in),
\* Vertex AI with a key.
SessionCtorArgs ==
  {[NoArgs EXCEPT !.api_key = <<<<"key">>>>, !.http_options = o] :
     o \in SessionHttpOptions}
  \cup
  {[NoArgs EXCEPT !.vertexai = <<TRUE>>, !.project = <<<<"proj">>>>,
                  !.location = <<<<"us-central1">>>>, !.credentials = c,
                  !.http_options = o] :
     c \in {<<>>, <<"creds">>}, o \in SessionHttpOptions}
  \cup
  {[NoArgs EXCEPT !.vertexai = <<TRUE>>, !.api_key = <<<<"key">>>>]}

\* The credential in use carries a quota project, or none.
SessionEnvironments ==
  {NoEnvironment,
   [NoEnvironment EXCEPT !.quota_project_id = <<<<"quota-project">>>>]}

InitCalls ==
  /\ \E args \in SessionCtorArgs, env \in SessionEnvironments :
       Constructed(args, env)
  /\ cpc = "ready"
  /\ token = 0
  /\ expired = FALSE
  /\ sync_auth_lock = 0
  /\ async_auth_lock = 0
  /\ apc = [c \in Callers |-> "idle"]
  /\ apath = [c \in Callers |-> "none"]
  /\ aresult = [c \in Callers |-> NoResult]
  /\ refreshing = {}
  /\ refreshes = 0
  /\ stale0 = TRUE
  /\ env_failed = FALSE
  /\ RetryIdle
  /\ UploadIdle
  /\ MergeIdle
  /\ CallIdle
  /\ StreamIdle

NextCalls ==
  \/ EndpointCall
  \/ DownloadExchange
  \/ DoAttempt
  \/ RetryIter
  \/ DoSleep
  \/ Return
  \/ TokenExpires

SpecCalls == InitCalls /\ [][NextCalls]_vars

(***************************************************************************)
(* Specification of two calls in flight on one client.                     *)
(***************************************************************************)
InitConcurrent == InitCalls

NextConcurrent ==
  \/ EndpointCall
  \/ DownloadExchange
  \/ DoAttempt
  \/ RetryIter
  \/ DoSleep
  \/ PeerCall
  \/ PeerAttempt

SpecConcurrent == InitConcurrent /\ [][NextConcurrent]_vars

(***************************************************************************)
(* Specification of the body of a request: calls with body fields, on      *)
(* clients built with or without extra_body.                               *)
(***************************************************************************)
BodyCtorArgs ==
  {[NoArgs EXCEPT !.api_key = <<<<"key">>>>,
                  !.http_options =
                     <<[NoOptions EXCEPT !.extra_body = extra_body]>>] :
     extra_body \in ExtraBodies}

InitBody ==
  /\ \E args \in BodyCtorArgs : Constructed(args, NoEnvironment)
  /\ cpc = "ready"
  /\ token = 0
  /\ expired = FALSE
  /\ sync_auth_lock = 0
  /\ async_auth_lock = 0
  /\ apc = [c \in Callers |-> "idle"]
  /\ apath = [c \in Callers |-> "none"]
  /\ aresult = [c \in Callers |-> NoResult]
  /\ refreshing = {}
  /\ refreshes = 0
  /\ stale0 = TRUE
  /\ env_failed = FALSE
  /\ RetryIdle
  /\ UploadIdle
  /\ MergeIdle
  /\ CallIdle
  /\ StreamIdle

NextBody ==
  \/ BodyCall
  \/ DoAttempt
  \/ RetryIter
  \/ Return

SpecBody == InitBody /\ [][NextBody]_vars

\* C21: in every upload call a chunk POST carries the command
\* 'upload, finalize' exactly when its offset plus the size of its chunk
\* reaches upload_size, and 'upload' otherwise; its Content-Length is the
\* number of bytes the read for that chunk returned, which are the bytes
\* of the source from the offset on, at most CHUNK_SIZE of them.
C21_CommandAndContentLength ==
  \A i \in 1..Len(posts) :
    /\ posts[i].command \in {"upload", "upload, finalize"}
    /\ posts[i].command = "upload, finalize"
       <=> posts[i].offset + posts[i].length >= upload_size
    /\ posts[i].length = posts[i].content.to - posts[i].content.from
    /\ posts[i].content.from = posts[i].offset
    /\ posts[i].content.to = Min(file_len, posts[i].offset + CHUNK_SIZE)

\* A source of CHUNK_SIZE + 1 bytes: a full chunk sent with 'upload', then
\* the last byte sent with 'upload, finalize'.
C21_Witness ==
  /\ upload_size = CHUNK_SIZE + 1
  /\ file_len = CHUNK_SIZE + 1
  /\ Len(posts) = 2
  /\ posts[1].command = "upload"
  /\ posts[1].length = CHUNK_SIZE
  /\ posts[2].command = "upload, finalize"
  /\ posts[2].length = 1

\* The response carries an x-goog-upload-status header, whatever its value.
HasStatusHeader(status) == status # "absent"

\* POST i sends again the chunk of the POST before it.
IsResend(i) == posts[i].retry_count > 0

\* C22 as stated: a response that has any upload-status header is never
\* followed by a resend of the chunk.
C22_NoResendAfterAnyStatusHeader ==
  \A i \in 2..Len(posts) :
    IsResend(i) => ~HasStatusHeader(posts[i - 1].status)

\* C22, amended: the per-chunk retry resends a chunk only after a response
\* whose upload-status header is absent or has an empty value; it sends at
\* most MAX_RETRY_COUNT POSTs for one chunk; every resend carries the bytes,
\* the offset and the command of the send before it; and a response with a
\* non-empty upload-status is never followed by a resend.
C22_ResendOnlyWithoutStatus ==
  \A i \in 1..Len(posts) :
    /\ posts[i].retry_count < MAX_RETRY_COUNT
    /\ IsResend(i)
       => /\ i > 1
          /\ posts[i - 1].retry_count = posts[i].retry_count - 1
          /\ posts[i - 1].status \in {"absent", "empty"}
          /\ posts[i].content = posts[i - 1].content
          /\ posts[i].length = posts[i - 1].length
          /\ posts[i].offset = posts[i - 1].offset
          /\ posts[i].command = posts[i - 1].command
    /\ (i < Len(posts) /\ posts[i].status \notin {"absent", "empty"})
       => ~IsResend(i + 1)

\* A chunk sent MAX_RETRY_COUNT times, the first two sends answered without
\* a status, and the next chunk sent after the third.
C22_Witness ==
  /\ Len(posts) = MAX_RETRY_COUNT + 1
  /\ posts[1].status = "absent"
  /\ posts[2].status = "absent"
  /\ posts[3].status = "active"
  /\ \A i \in 1..MAX_RETRY_COUNT : posts[i].retry_count = i - 1
  /\ posts[MAX_RETRY_COUNT + 1].retry_count = 0
  /\ posts[MAX_RETRY_COUNT + 1].offset > 0

\* The callers inside the credential-discovery step (_load_auth).
Loading == {c \in Callers : apc[c] \in {"s_load", "a_load"}}

\* C23: for callers of the access-token operation that all use one call
\* path, at most one is ever inside the credential-discovery step and none
\* once the credential is resolved; on a client whose credential is not yet
\* resolved, with discovery and refresh succeeding, discovery runs exactly
\* once for all NCallers callers and every caller returns the token of the
\* credential it resolved.
C23_DiscoveryOnce ==
  /\ [](SamePath => /\ Cardinality(Loading) <= 1
                    /\ ~NotCredentials => Loading = {})
  /\ NotCredentials
     => [](SamePath /\ ~env_failed
           => /\ loads <= 1
              /\ AllDone => /\ loads = 1
                            /\ \A c \in Callers : aresult[c] = Token(1))

\* NCallers blocking callers arrived at a client with no credential: one
\* discovery, and all of them returned the token of its credential.
C23_Witness ==
  /\ AllDone
  /\ \A c \in Callers : apath[c] = "sync"
  /\ loads = 1
  /\ ~env_failed
  /\ \A c \in Callers : aresult[c] = Token(1)

(***************************************************************************)
(* Claims about the calls of a session (checked under SpecCalls).          *)
(***************************************************************************)
\* The call in hand runs inside the retry loop.
RetriedCall == qpc = "retrying"

\* The attempts of the call in hand that handed a request to the HTTP client.
SentAttempts == {sent[i].attempt : i \in 1..Len(sent)}

\* C24: in OAuth mode (Vertex AI, no API key) every attempt of a retried
\* call asks the credential manager for the token: the attempt either fails
\* there, or sends Authorization: Bearer followed by the token the
\* credential held when this attempt asked, so that the last request sent
\* carries the token the credential holds now, refreshed or not; and
\* x-goog-user-project is sent with the quota project of the credential
\* when it has one.
C24_TokenOfEachAttempt ==
  (OAuthMode /\ RetriedCall)
  => /\ \A k \in 1..Len(outcomes) :
          k \in SentAttempts <=> outcomes[k] # AuthError(k)
     /\ \A i \in 1..Len(sent) :
          /\ sent[i].token # 0
          /\ "Authorization" \in DOMAIN sent[i].headers[1]
          /\ sent[i].headers[1]["Authorization"] = Bearer(sent[i].token)
          /\ Truthy(environ.quota_project_id)
             => /\ "x-goog-user-project" \in DOMAIN sent[i].headers[1]
                /\ sent[i].headers[1]["x-goog-user-project"]
                     = environ.quota_project_id[1]
     /\ (sent # <<>> /\ LastOutcome # AuthError(Len(outcomes)))
        => sent[Len(sent)].headers[1]["Authorization"] = Bearer(token)

\* Two attempts of one call, the token refreshed between them: the first
\* carries the old token and the second the new one.
C24_Witness ==
  /\ OAuthMode
  /\ RetriedCall
  /\ Truthy(environ.quota_project_id)
  /\ Len(sent) = 2
  /\ sent[1].headers[1]["Authorization"] = Bearer(Token(1))
  /\ sent[2].headers[1]["Authorization"] = Bearer(Token(2))
  /\ token = Token(2)

\* A request has been built for the call in hand.
RequestBuilt == qpc \in {"retrying", "send"} /\ call_error = "none"

\* The timeout in effect for the call in hand, in milliseconds: the per-call
\* one when the caller gave one, else the one the client was built with.
EffectiveTimeout ==
  IF http_options # <<>> /\ http_options[1].timeout # <<>>
  THEN http_options[1].timeout
  ELSE Construct(ctor_args, environ).http_options.timeout

\* The headers the caller supplied, to the constructor or to the call.
SuppliedHeaders ==
  (IF ctor_args.http_options = <<>> THEN {}
   ELSE DOMAIN HeadersOrEmpty(ctor_args.http_options[1].headers))
    \cup (IF http_options = <<>> THEN {}
          ELSE DOMAIN HeadersOrEmpty(http_options[1].headers))

\* C25: after any sequence of earlier calls on the client, a built request
\* whose effective timeout is T > 0 milliseconds has the timeout T / 1000
\* seconds and, unless the caller supplied X-Server-Timeout, carries
\* X-Server-Timeout = ceil(T / 1000) of this call's own timeout; with no
\* timeout set the header is not there.
C25_ServerTimeoutOfThisCall ==
  RequestBuilt
  => LET T == EffectiveTimeout
         headers == http_request.headers[1]
     IN IF T # <<>> /\ T[1] > 0
        THEN /\ http_request.timeout # <<>>
             /\ http_request.timeout[1].num * 1000
                  = T[1] * http_request.timeout[1].den
             /\ "X-Server-Timeout" \notin SuppliedHeaders
                => /\ "X-Server-Timeout" \in DOMAIN headers
                   /\ headers["X-Server-Timeout"]
                        = <<ToString((T[1] + 999) \div 1000)>>
        ELSE /\ http_request.timeout = <<>>
             /\ "X-Server-Timeout" \notin SuppliedHeaders
                => "X-Server-Timeout" \notin DOMAIN headers

\* C26: building and sending a request, with or without a per-call
\* override, leaves the base configuration of the client as the constructor
\* made it, its header map included.
C26_BaseConfigurationUnchanged ==
  cpc = "ready" => _http_options = Construct(ctor_args, environ).http_options

(***************************************************************************)
(* Claims about two calls in flight (checked under SpecConcurrent).        *)
(***************************************************************************)
\* C27: no header written by one call in flight is seen in the request of
\* another: a download sends its request with the headers _build_request
\* put there for it, since the call writes no header after the build.
C27_NoHeaderOfAnotherCall ==
  (qkind \in DownloadCalls /\ qpc = "done")
  => \A i \in 1..Len(sent) : sent[i].headers = built_headers

\* C28: every HTTP request the client sends for a request, a streamed
\* request or a download carries exactly one authentication: x-goog-api-key
\* when an API key is active, Authorization: Bearer <token> when OAuth is,
\* never both and never neither.
C28_ExactlyOneAuthentication ==
  cpc = "ready"
  => \A i \in 1..Len(sent) :
       LET headers == sent[i].headers[1]
       IN /\ ("x-goog-api-key" \in DOMAIN headers)
               # ("Authorization" \in DOMAIN headers)
          /\ Truthy(api_key) => "x-goog-api-key" \in DOMAIN headers
          /\ OAuthMode => "Authorization" \in DOMAIN headers

(***************************************************************************)
(* Claims about the body of a request (checked under SpecBody).            *)
(***************************************************************************)
\* The key has the internal-only prefix.
IsSpecialKey(key) == StartsWith(key, <<"_">>)

\* extra_body of the configuration in effect for the call in hand.
EffectiveExtraBody ==
  IF EffectiveOptions.extra_body = <<>> THEN <<>>
  ELSE EffectiveOptions.extra_body[1]

\* C29 as stated: the body of a built request has no top-level key that
\* starts with '_', whatever the body fields and extra_body.
C29_NoSpecialKeyInBody ==
  RequestBuilt => \A key \in DOMAIN http_request.data : ~IsSpecialKey(key)

\* C29, amended: the body of a built request holds no top-level key that
\* starts with '_' other than the keys of extra_body; it holds every key of
\* extra_body with the value extra_body gives it, and every other field the
\* caller passed under a key that does not start with '_', and nothing else.
C29_SpecialKeysOnlyFromExtraBody ==
  RequestBuilt
  => /\ \A key \in DOMAIN http_request.data :
          IsSpecialKey(key) => key \in DOMAIN EffectiveExtraBody
     /\ DOMAIN http_request.data =
          {key \in DOMAIN request_dict : ~IsSpecialKey(key)}
            \cup DOMAIN EffectiveExtraBody
     /\ \A key \in DOMAIN http_request.data :
          http_request.data[key] =
            IF key \in DOMAIN EffectiveExtraBody THEN EffectiveExtraBody[key]
            ELSE request_dict[key]

\* The caller passed '_url' and a plain field, extra_body adds a plain
\* field: the body holds the two plain fields.
C29_Witness ==
  /\ RequestBuilt
  /\ DOMAIN request_dict = {<<"a">>, <<"_", "url">>}
  /\ <<"b">> \in DOMAIN EffectiveExtraBody
  /\ \A key \in DOMAIN EffectiveExtraBody : ~IsSpecialKey(key)
  /\ DOMAIN http_request.data = {<<"a">>, <<"b">>}

(***************************************************************************)
(* More claims about the request builder (checked under SpecRequest).      *)
(***************************************************************************)
\* The call in hand is a GET of a base-model listing path.
BaseModelListing ==
  /\ http_method = "get"
  /\ StartsWith(path, <<"publishers", "/", "google", "/", "models">>)

\* The path the URL of the call in hand is to be made of.
ExpectedPath ==
  IF /\ OAuthMode
     /\ ~StartsWith(path, <<"projects", "/">>)
     /\ ~BaseModelListing
  THEN <<"projects", "/">> \o project[1] \o <<"/", "locations", "/">>
         \o location[1] \o <<"/">> \o path
  ELSE path

\* C30: the URL of a built request is made of the path with
\* projects/{project}/locations/{location}/ in front of it exactly when the
\* client is in OAuth mode (Vertex AI, no API key), the path does not start
\* with 'projects/', and the call is not a GET of a base-model listing
\* path; in every other case it is made of the path as given.
C30_ProjectLocationPrefix ==
  Built
  => http_request.url =
       _join_url_path(EffectiveOptions.base_url[1],
                      VersionedPath(EffectiveOptions.api_version,
                                    ExpectedPath))

\* A POST to the base-model path on a Vertex AI client without API key:
\* only a GET is left alone, so project and location are put in front.
C30_Witness ==
  /\ Built
  /\ OAuthMode
  /\ http_options = <<>>
  /\ http_method = "post"
  /\ path = <<"publishers", "/", "google", "/", "models">>
  /\ http_request.url =
       <<"https", ":", "/", "/", "us-central1", "-aiplatform.googleapis.com",
         "/", "v1beta1", "/", "projects", "/", "proj", "/", "locations",
         "/", "us-central1", "/", "publishers", "/", "google", "/",
         "models">>

(***************************************************************************)
(* Specification of one event loop that carries two coroutines of a        *)
(* client: an upload through _async_upload_fd and caller 1 in              *)
(* _async_access_token.                                                    *)
(***************************************************************************)
\* An upload of one chunk about to start, and a credential in any state.
InitCarrier ==
  /\ umode = "none"
  /\ upc = "idle"
  /\ upload_size = CHUNK_SIZE
  /\ file_len = CHUNK_SIZE
  /\ file_pos = 0
  /\ file_chunk = FileRead(0)
  /\ offset = 0
  /\ chunk_size = 0
  /\ upload_command = "none"
  /\ retry_count = 0
  /\ last_status = "unset"
  /\ posts = <<>>
  /\ usleeps = 0
  /\ uresult = "none"
  /\ credentials \in {"none", "set"}
  /\ token \in {0, Token(0)}
  /\ expired \in BOOLEAN
  /\ credentials = "none" => (token = 0 /\ ~expired)
  /\ token = 0 => ~expired
  /\ stale0 = NeedsRefresh
  /\ sync_auth_lock = 0
  /\ async_auth_lock = 0
  /\ apc = [c \in Callers |-> "idle"]
  /\ apath = [c \in Callers |-> "none"]
  /\ aresult = [c \in Callers |-> NoResult]
  /\ refreshing = {}
  /\ refreshes = 0
  /\ loads = 0
  /\ env_failed = FALSE
  /\ retry_options = NoRetryOptions
  /\ RetryIdle
  /\ MergeIdle
  /\ ClientNew
  /\ CallIdle
  /\ StreamIdle

UploadCoroutine ==
  \/ _async_upload_fd_aiohttp
  \/ _async_upload_fd_httpx
  \/ ReadChunk
  \/ PostChunk
  \/ SleepReturns
  \/ Advance
  \/ Finish

NextCarrier ==
  \/ UploadCoroutine
  \/ AuthCoroutine(1)

SpecCarrier == InitCarrier /\ [][NextCarrier]_vars

(***************************************************************************)
(* Claims about the event loop (checked under SpecCarrier).                *)
(***************************************************************************)
\* The upload coroutine is in the sleep between two sends of a chunk.
UploadSleeping == umode \in Coroutines /\ upc = "sleep"

\* Caller 1 waits for the discovery or for the refresh of the credential.
AuthWaiting == apc[1] \in {"a_load", "a_refreshing"}

\* C31: on the event loop, neither a wait for a token nor the sleep between
\* two sends of a chunk keeps the other coroutine from running: while the
\* upload sleeps, the unfinished token coroutine has a step it can take, and
\* while the token coroutine waits, the unfinished upload has one.
C31_WaitsLeaveCarrierFree ==
  /\ (UploadSleeping /\ apc[1] # "done") => ENABLED AuthCoroutine(1)
  /\ (AuthWaiting /\ upc # "done") => ENABLED UploadCoroutine

(***************************************************************************)
(* Specification of a streamed response with a consumer that may stop      *)
(* before the end.                                                         *)
(***************************************************************************)
InitRelease == InitStream

NextRelease ==
  \/ segments
  \/ async_segments
  \/ request_streamed_generator
  \/ async_request_streamed_generator
  \/ NextSegment
  \/ GeneratorExit

SpecRelease == InitRelease /\ [][NextRelease]_vars

(***************************************************************************)
(* Claims about the release of a streamed response (checked under          *)
(* SpecRelease).                                                           *)
(***************************************************************************)
\* The streamed call is over for its consumer: the records came to their
\* end, a chunk could not be decoded, or the consumer stopped early.
Exited ==
  /\ scall \in {"request_streamed", "async_request_streamed"}
  /\ spc \in {"ended", "raised", "closed"}

\* C32: on every exit path of a streamed call (the end of the records, the
\* consumer stopping early, a decode error) the response opened for it, and
\* the session opened for it, are released.
C32_ReleasedOnEveryExit == Exited => unreleased = {}

(***************************************************************************)
(* Specification of async_segments on a body that arrives over the         *)
(* network, through the httpx response and through the aiohttp response.   *)
(***************************************************************************)
InitBackends ==
  /\ \E body \in Bodies :
       \/ /\ stream_source = "aiter_lines"
          /\ response_stream = SplitLines(body)
       \/ /\ stream_source = "iter_any"
          /\ response_stream \in Deliveries(body)
  /\ scall = "none"
  /\ spc = "idle"
  /\ chunk_index = 0
  /\ yielded = <<>>
  /\ unreleased = Opened(stream_source)
  /\ retry_options = NoRetryOptions
  /\ RetryIdle
  /\ AuthIdle
  /\ UploadIdle
  /\ MergeIdle
  /\ ClientNew
  /\ CallIdle

NextBackends ==
  \/ async_segments
  \/ NextSegment

SpecBackends == InitBackends /\ [][NextBackends]_vars

(***************************************************************************)
(* Claims about the two backends (checked under SpecBackends).             *)
(***************************************************************************)
RECURSIVE DecodeAll(_, _)
\* What a consumer that iterates to the end receives from the given units
\* of a body: the records up to the first unit that cannot be decoded, and
\* whether there was one.
DecodeAll(source, chunks) ==
  IF chunks = <<>> THEN [records |-> <<>>, raised |-> FALSE]
  ELSE LET first == Decode(source, Head(chunks))
           rest == DecodeAll(source, Tail(chunks))
       IN CASE first.kind = "raise" -> [records |-> <<>>, raised |-> TRUE]
            [] first.kind = "skip" -> rest
            [] first.kind = "record" ->
                 [rest EXCEPT !.records = <<first.value>> \o @]

\* The decoding finished, at the end of the body or with an error.
Finished == spc \in {"ended", "raised"}

\* C33: async_segments yields the same records for the same body through
\* the aiohttp response as through the httpx response, however the network
\* cut the body: when the decoding of an aiohttp body has finished, the
\* consumer has received the records that the lines of that body decode to,
\* one per non-empty line, and has the error only if one of those lines
\* cannot be decoded.
C33_SameRecordsOnBothBackends ==
  (scall = "async_segments" /\ stream_source = "iter_any" /\ Finished)
  => LET general == DecodeAll("aiter_lines",
                              SplitLines(Flatten(response_stream)))
     IN /\ [i \in 1..Len(yielded) |-> yielded[i].value] = general.records
        /\ (spc = "raised") = general.raised

(***************************************************************************)
(* Termination of the upload (checked under SpecUpload).                   *)
(***************************************************************************)
\* The chunk loop goes round: after `offset += chunk_size` neither `break`
\* nor `raise` is taken and the next chunk is read.
LoopsAgain == upc = "advance" /\ upc' = "read"

\* C34: an upload ends after finitely many POSTs whatever the server answers
\* and whatever the source holds: every round of the chunk loop that goes on
\* to another read has moved the offset towards the declared size, so the
\* rounds of one call are bounded by upload_size.
C34_EveryRoundAdvances == [][LoopsAgain => offset' > offset]_vars

(***************************************************************************)
(* The credential manager with its callers scheduled: a caller that can    *)
(* take a step is not left out for ever.                                   *)
(***************************************************************************)
SpecAuthLive == InitAuth /\ [][NextAuth]_vars /\ WF_vars(NextAuth)

\* Caller c left the access-token operation with the error.
Failed(c) == apc[c] = "done" /\ aresult[c] = ErrorResult

\* C35: a failure of the credential discovery or of the token refresh inside
\* the access-token operation releases the auth lock.  A caller that has left
\* the operation, failed or not, holds neither lock and has a token or its
\* own failure; and every caller, those that wait for a lock and those that
\* arrive later, has left the operation in the end.
C35_LockReleasedOnFailure ==
  /\ [](\A c \in Callers :
         apc[c] = "done" => /\ sync_auth_lock # c
                            /\ async_auth_lock # c
                            /\ aresult[c] # NoResult)
  /\ <>AllDone

\* The discovery failed for the caller that held the lock; the callers that
\* waited behind it took the lock after it, one of them resolved the
\* credential, and they hold its token.
C35_Witness ==
  /\ AllDone
  /\ SamePath
  /\ loads = 2
  /\ sync_auth_lock = 0
  /\ async_auth_lock = 0
  /\ \E c \in Callers :
       /\ Failed(c)
       /\ \A d \in Callers \ {c} : aresult[d] = Token(1)

(***************************************************************************)
(* Specification of the construction for Vertex AI, with API keys that are *)
(* blank among the arguments and in the environment.                       *)
(***************************************************************************)
\* An API key of white space only.
BlankKey == <<" ", " ">>

IdentityCtorArgs ==
  [vertexai : {<<>>, <<TRUE>>},
   api_key : {<<>>, <<<<"key">>>>, <<BlankKey>>},
   credentials : {<<>>, <<"creds">>},
   project : {<<>>, <<<<"proj">>>>},
   location : {<<>>, <<<<"us-central1">>>>, <<<<"global">>>>},
   http_options : {<<>>}]

IdentityEnvironments ==
  [GOOGLE_GENAI_USE_VERTEXAI : {TRUE},
   GOOGLE_CLOUD_PROJECT : {<<>>, <<<<"env-project">>>>},
   GOOGLE_CLOUD_LOCATION : {<<>>, <<<<"env-location">>>>},
   api_key : {<<>>, <<<<"env-key">>>>, <<BlankKey>>},
   adc_raises : BOOLEAN,
   adc_project : {<<<<"adc-project">>>>},
   quota_project_id : {<<>>}]

InitIdentity == InitInit

NextIdentity == Initialize(IdentityCtorArgs, IdentityEnvironments)

SpecIdentity == InitIdentity /\ [][NextIdentity]_vars

(***************************************************************************)
(* The identity of a constructed client (checked under SpecIdentity).      *)
(***************************************************************************)
\* The client authenticates with its API key alone.
KeyIdentity == Truthy(api_key) /\ ~Truthy(project) /\ ~Truthy(location)

\* The client authenticates as a project in a location, without a key.
ProjectIdentity == ~Truthy(api_key) /\ Truthy(project) /\ Truthy(location)

\* C36: after every successful construction for Vertex AI, whatever the
\* explicit arguments and the environment, exactly one identity is active:
\* an API key with neither project nor location, or a project and a location
\* with no API key.
C36_ExactlyOneIdentity ==
  (cpc = "ready" /\ vertexai = <<TRUE>>) => (KeyIdentity \/ ProjectIdentity)

====
